---------------------------- MODULE Spec2Model ----------------------------
(***************************************************************************)
(* Model of the serial command interface of the minipad firmware.          *)
(*                                                                         *)
(* The repository holds two revisions of serial_handler.cpp:               *)
(*   - src/unnamed/part_000 : analog keys are addressed "hkey"             *)
(*   - src/src/handlers/serial_handler.cpp : analog keys are addressed     *)
(*     "key", and the rest/down calibration points are settable            *)
(* The variable `firmware` says which of the two builds is running.        *)
(*                                                                         *)
(* C strings are sequences of ASCII codes (no NUL inside).                 *)
(***************************************************************************)
EXTENDS Integers, Sequences, FiniteSets, TLC

(***************************************************************************)
(* Characters                                                              *)
(***************************************************************************)
\* The characters the command lines of this model are written with.
Digit == <<"0", "1", "2", "3", "4", "5", "6", "7", "8", "9">>
Upper == <<"A", "B", "C", "D", "E", "F", "G", "H", "I", "J", "K", "L", "M",
           "N", "O", "P", "Q", "R", "S", "T", "U", "V", "W", "X", "Y", "Z">>
Lower == <<"a", "b", "c", "d", "e", "f", "g", "h", "i", "j", "k", "l", "m",
           "n", "o", "p", "q", "r", "s", "t", "u", "v", "w", "x", "y", "z">>

\* ASCII code of a one-character string.
Ord(c) ==
  IF \E i \in 1..10 : Digit[i] = c THEN 47 + (CHOOSE i \in 1..10 : Digit[i] = c)
  ELSE IF \E i \in 1..26 : Upper[i] = c THEN 64 + (CHOOSE i \in 1..26 : Upper[i] = c)
  ELSE IF \E i \in 1..26 : Lower[i] = c THEN 96 + (CHOOSE i \in 1..26 : Lower[i] = c)
  ELSE CASE c = " " -> 32 [] c = "+" -> 43 [] c = "-" -> 45 [] c = "." -> 46
         [] c = "=" -> 61 [] c = "_" -> 95

\* The C string spelled by a tuple of one-character strings.
Str(cs) == [i \in 1..Len(cs) |-> Ord(cs[i])]

\* The delimiters ' ' and '.', and the signs atoi() reads.
SP    == 32
DOT   == 46
PLUS  == 43
MINUS == 45

\* Decimal text of an integer, as printf("%d") writes it.
RECURSIVE DecNat(_)
DecNat(n) == IF n < 10 THEN <<48 + n>> ELSE Append(DecNat(n \div 10), 48 + (n % 10))

Dec(n) == IF n < 0 THEN <<MINUS>> \o DecNat(0 - n) ELSE DecNat(n)

(***************************************************************************)
(* libc / StringHelper                                                     *)
(***************************************************************************)
\* tolower() on one character.
ToLowerChar(c) == IF c >= 65 /\ c <= 90 THEN c + 32 ELSE c

\* StringHelper::toLower: lowercases the buffer in place.
ToLower(s) == [i \in 1..Len(s) |-> ToLowerChar(s[i])]

\* Position of the first `d` in s at or after position `from`; Len(s)+1 if none.
RECURSIVE FindFrom(_, _, _)
FindFrom(s, d, from) ==
  IF from > Len(s) THEN Len(s) + 1
  ELSE IF s[from] = d THEN from
  ELSE FindFrom(s, d, from + 1)

\* Start position of the index-th delimiter-separated piece; 0 if there is none.
RECURSIVE PieceStart(_, _, _, _)
PieceStart(s, d, index, from) ==
  IF index = 0 THEN from
  ELSE LET p == FindFrom(s, d, from)
       IN  IF p > Len(s) THEN 0 ELSE PieceStart(s, d, index - 1, p + 1)

\* StringHelper::getArgumentAt: the index-th piece of s split at delimiter d,
\* the empty string when s has fewer pieces.
GetArgumentAt(s, d, index) ==
  LET st == PieceStart(s, d, index, 1)
  IN  IF st = 0 THEN <<>>
      ELSE SubSeq(s, st, FindFrom(s, d, st) - 1)

IsSpace(c) == c = 32 \/ (c >= 9 /\ c <= 13)
IsDigit(c) == c >= 48 /\ c <= 57

RECURSIVE SkipSpace(_, _)
SkipSpace(s, i) == IF i <= Len(s) /\ IsSpace(s[i]) THEN SkipSpace(s, i + 1) ELSE i

RECURSIVE Digits(_, _, _)
Digits(s, i, acc) ==
  IF i <= Len(s) /\ IsDigit(s[i]) THEN Digits(s, i + 1, acc * 10 + (s[i] - 48)) ELSE acc

\* atoi(): optional white space, optional sign, then the leading digits; 0 if none.
Atoi(s) ==
  LET i == SkipSpace(s, 1)
  IN  IF i <= Len(s) /\ s[i] = MINUS THEN 0 - Digits(s, i + 1, 0)
      ELSE IF i <= Len(s) /\ s[i] = PLUS THEN Digits(s, i + 1, 0)
      ELSE Digits(s, i, 0)

\* Conversions of an int to the unsigned parameter types.
ToUint8(n)  == n % 256
\* The argument passed on at the width of int.
ToUint16_wide(n) == n

ToUint16(n) == n % 65536

\* strstr(s, p) == s : s starts with p.
StartsWith(s, p) == Len(s) >= Len(p) /\ SubSeq(s, 1, Len(p)) = p

\* isEqual / isTrue macros.
IsEqual(a, b) == a = b
W_1 == Str(<<"1">>)
W_true == Str(<<"t", "r", "u", "e">>)
IsTrue(s) == IsEqual(s, W_1) \/ IsEqual(s, W_true)

(***************************************************************************)
(* Program constants                                                       *)
(***************************************************************************)
\* Build flags -DHE_KEYS=3 -DDIGITAL_KEYS=18.
HE_KEYS == 3
DIGITAL_KEYS == 18

\* definitions.hpp
HYSTERESIS_TOLERANCE == 10
RAPID_TRIGGER_TOLERANCE == 10
TRAVEL_DISTANCE_IN_0_01MM == 400
ANALOG_RESOLUTION == 12

\* pow(2, ANALOG_RESOLUTION) - 1
RECURSIVE Pow2(_)
Pow2(n) == IF n = 0 THEN 1 ELSE 2 * Pow2(n - 1)
MaxAnalog == Pow2(ANALOG_RESOLUTION) - 1

\* The words of the protocol.
W_boot == Str(<<"b", "o", "o", "t">>)
W_save == Str(<<"s", "a", "v", "e">>)
W_get == Str(<<"g", "e", "t">>)
W_name == Str(<<"n", "a", "m", "e">>)
W_out == Str(<<"o", "u", "t">>)
W_echo == Str(<<"e", "c", "h", "o">>)
W_hkey == Str(<<"h", "k", "e", "y">>)
W_key == Str(<<"k", "e", "y">>)
W_dkey == Str(<<"d", "k", "e", "y">>)
W_rt == Str(<<"r", "t">>)
W_crt == Str(<<"c", "r", "t">>)
W_rtus == Str(<<"r", "t", "u", "s">>)
W_rtds == Str(<<"r", "t", "d", "s">>)
W_lh == Str(<<"l", "h">>)
W_uh == Str(<<"u", "h">>)
W_char == Str(<<"c", "h", "a", "r">>)
W_hid == Str(<<"h", "i", "d">>)
W_rest == Str(<<"r", "e", "s", "t">>)
W_down == Str(<<"d", "o", "w", "n">>)

(***************************************************************************)
(* State                                                                   *)
(***************************************************************************)
VARIABLES
  firmware,     \* "hkey": src/unnamed/part_000, "key": src/src/handlers/serial_handler.cpp
  heKeys,       \* ConfigController.config.heKeys, slots 0..HE_KEYS-1
  digitalKeys,  \* ConfigController.config.digitalKeys, slots 0..DIGITAL_KEYS-1
  configName,   \* ConfigController.config.name
  outputMode,   \* KeypadHandler.outputMode
  heKeyStates,  \* KeypadHandler.heKeyStates
  stored,       \* the copy of the configuration in storage
  booted,       \* the chip has been reset into the bootloader
  output,       \* the lines the last command printed
  input         \* the last line handed to handleSerialInput

vars == <<firmware, heKeys, digitalKeys, configName, outputMode, heKeyStates, stored,
          booted, output, input>>

HEIndex == 0..(HE_KEYS - 1)
DigitalIndex == 0..(DIGITAL_KEYS - 1)

\* The configuration as ConfigController.saveConfig() writes it.
Config == [name |-> configName, heKeys |-> heKeys, digitalKeys |-> digitalKeys]

(***************************************************************************)
(* Setters of src/unnamed/part_000                                         *)
(***************************************************************************)
hkey_rt_toggling(key, state) ==
  [key EXCEPT !.rapidTrigger = IF state THEN ~key.rapidTrigger ELSE key.rapidTrigger]

hkey_rt(key, state) == [key EXCEPT !.rapidTrigger = state]

hkey_crt(key, state) == [key EXCEPT !.continuousRapidTrigger = state]

\* hkey_rtus without the upper bound.
hkey_rtus_no_upper(key, value) ==
  IF value >= RAPID_TRIGGER_TOLERANCE
  THEN [key EXCEPT !.rapidTriggerUpSensitivity = value]
  ELSE key

hkey_rtus(key, value) ==
  IF value >= RAPID_TRIGGER_TOLERANCE /\ value <= TRAVEL_DISTANCE_IN_0_01MM
  THEN [key EXCEPT !.rapidTriggerUpSensitivity = value]
  ELSE key

\* hkey_rtds raising a value below the range to its lower end.
hkey_rtds_clamping(key, value) ==
  IF value <= TRAVEL_DISTANCE_IN_0_01MM
  THEN [key EXCEPT !.rapidTriggerDownSensitivity =
                      IF value >= RAPID_TRIGGER_TOLERANCE THEN value
                      ELSE RAPID_TRIGGER_TOLERANCE]
  ELSE key

hkey_rtds(key, value) ==
  IF value >= RAPID_TRIGGER_TOLERANCE /\ value <= TRAVEL_DISTANCE_IN_0_01MM
  THEN [key EXCEPT !.rapidTriggerDownSensitivity = value]
  ELSE key

\* hkey_lh with the difference taken in 16 unsigned bits.
hkey_lh_wrapping(key, value) ==
  IF ToUint16(key.upperHysteresis - value) >= HYSTERESIS_TOLERANCE
  THEN [key EXCEPT !.lowerHysteresis = value]
  ELSE key

\* The operands are promoted to int: the difference may be negative, it never wraps.
hkey_lh(key, value) ==
  IF key.upperHysteresis - value >= HYSTERESIS_TOLERANCE
  THEN [key EXCEPT !.lowerHysteresis = value]
  ELSE key

\* hkey_uh without the check against the travel distance.
hkey_uh_no_ceiling(key, value) ==
  IF value - key.lowerHysteresis >= HYSTERESIS_TOLERANCE
  THEN [key EXCEPT !.upperHysteresis = value]
  ELSE key

\* hkey_uh asking for more than the tolerance between the two values.
hkey_uh_strict_gap(key, value) ==
  IF /\ value - key.lowerHysteresis > HYSTERESIS_TOLERANCE
     /\ TRAVEL_DISTANCE_IN_0_01MM - value >= HYSTERESIS_TOLERANCE
  THEN [key EXCEPT !.upperHysteresis = value]
  ELSE key

hkey_uh(key, value) ==
  IF /\ value - key.lowerHysteresis >= HYSTERESIS_TOLERANCE
     /\ TRAVEL_DISTANCE_IN_0_01MM - value >= HYSTERESIS_TOLERANCE
  THEN [key EXCEPT !.upperHysteresis = value]
  ELSE key

key_char(key, keyChar) == [key EXCEPT !.keyChar = keyChar]

key_hid(key, state) == [key EXCEPT !.hidEnabled = state]

\* The argument always read as a number, as key_char took it before.
CharArgument_atoi(arg0) == ToUint8(Atoi(arg0))

\* strlen(arg0) == 1 ? (int)arg0[0] : atoi(arg0), passed as uint8_t.
CharArgument(arg0) == ToUint8(IF Len(arg0) = 1 THEN arg0[1] ELSE Atoi(arg0))

\* The if/else-if chain over the setting of a hall effect key (lines 88-103).
HkeySetting_calibrating(key, setting, arg0) ==
  IF IsEqual(setting, W_rt) THEN hkey_rt(key, IsTrue(arg0))
  ELSE IF IsEqual(setting, W_crt) THEN hkey_crt(key, IsTrue(arg0))
  ELSE IF IsEqual(setting, W_rtus) THEN hkey_rtus(key, ToUint16(Atoi(arg0)))
  ELSE IF IsEqual(setting, W_rtds) THEN hkey_rtds(key, ToUint16(Atoi(arg0)))
  ELSE IF IsEqual(setting, W_lh) THEN hkey_lh(key, ToUint16(Atoi(arg0)))
  ELSE IF IsEqual(setting, W_uh) THEN hkey_uh(key, ToUint16(Atoi(arg0)))
  ELSE IF IsEqual(setting, W_char) THEN key_char(key, CharArgument(arg0))
  ELSE IF IsEqual(setting, W_hid) THEN key_hid(key, IsTrue(arg0))
  ELSE IF IsEqual(setting, W_rest) THEN hkey_lh(key, ToUint16(Atoi(arg0)))
  ELSE key

HkeySetting(key, setting, arg0) ==
  IF IsEqual(setting, W_rt) THEN hkey_rt(key, IsTrue(arg0))
  ELSE IF IsEqual(setting, W_crt) THEN hkey_crt(key, IsTrue(arg0))
  ELSE IF IsEqual(setting, W_rtus) THEN hkey_rtus(key, ToUint16(Atoi(arg0)))
  ELSE IF IsEqual(setting, W_rtds) THEN hkey_rtds(key, ToUint16(Atoi(arg0)))
  ELSE IF IsEqual(setting, W_lh) THEN hkey_lh(key, ToUint16(Atoi(arg0)))
  ELSE IF IsEqual(setting, W_uh) THEN hkey_uh(key, ToUint16(Atoi(arg0)))
  ELSE IF IsEqual(setting, W_char) THEN key_char(key, CharArgument(arg0))
  ELSE IF IsEqual(setting, W_hid) THEN key_hid(key, IsTrue(arg0))
  ELSE key

\* The if/else-if chain over the setting of a digital key (lines 141-144).
DkeySetting(key, setting, arg0) ==
  IF IsEqual(setting, W_char) THEN key_char(key, CharArgument(arg0))
  ELSE IF IsEqual(setting, W_hid) THEN key_hid(key, IsTrue(arg0))
  ELSE key

\* The index taken as it is written, without the step from 1-based to 0-based.
KeyIndex_one_based(keyStr, prefix) == ToUint8(Atoi(SubSeq(keyStr, prefix + 1, Len(keyStr))))

\* uint8_t keyIndex = atoi(keyStr + prefix) - 1
KeyIndex(keyStr, prefix) == ToUint8(Atoi(SubSeq(keyStr, prefix + 1, Len(keyStr))) - 1)

\* The keys a key command is applied to: the one slot of a valid index, every slot
\* without an index, none when the index check returns.
Targets(keyStr, prefix, count) ==
  IF Len(keyStr) > prefix
  THEN IF KeyIndex(keyStr, prefix) >= count THEN {} ELSE {KeyIndex(keyStr, prefix)}
  ELSE 0..(count - 1)

\* The hall effect key branch applying the setting to every targeted key or, when
\* the setting leaves one of them as it was, to none.
HkeyBranch_all_or_nothing(command, arg0, keys) ==
  IF StartsWith(command, W_hkey)
  THEN LET keyStr  == GetArgumentAt(command, DOT, 0)
           setting == GetArgumentAt(command, DOT, 1)
           targets == Targets(keyStr, 4, HE_KEYS)
       IN  IF \E i \in targets : HkeySetting(keys[i], setting, arg0) = keys[i]
           THEN keys
           ELSE [i \in HEIndex |->
                   IF i \in targets THEN HkeySetting(keys[i], setting, arg0) ELSE keys[i]]
  ELSE keys

\* The hall effect key branch (lines 57-105).
HkeyBranch(command, arg0, keys) ==
  IF StartsWith(command, W_hkey)
  THEN LET keyStr  == GetArgumentAt(command, DOT, 0)
           setting == GetArgumentAt(command, DOT, 1)
           targets == Targets(keyStr, 4, HE_KEYS)
       IN  [i \in HEIndex |->
              IF i \in targets THEN HkeySetting(keys[i], setting, arg0) ELSE keys[i]]
  ELSE keys

\* The digital key branch (lines 108-146).
DkeyBranch(command, arg0, keys) ==
  IF StartsWith(command, W_dkey)
  THEN LET keyStr  == GetArgumentAt(command, DOT, 0)
           setting == GetArgumentAt(command, DOT, 1)
           targets == Targets(keyStr, 4, DIGITAL_KEYS)
       IN  [i \in DigitalIndex |->
              IF i \in targets THEN DkeySetting(keys[i], setting, arg0) ELSE keys[i]]
  ELSE keys

(***************************************************************************)
(* Printed lines                                                           *)
(***************************************************************************)
T_GET == Str(<<"G", "E", "T", " ">>)
T_OUT == Str(<<"O", "U", "T", " ">>)
T_END == Str(<<"G", "E", "T", " ", "E", "N", "D">>)
T_dev == Str(<<"-", "d", "e", "v">>)
T_eq == Str(<<"=">>)
T_version == Str(<<"v", "e", "r", "s", "i", "o", "n">>)
T_hkeys == Str(<<"h", "k", "e", "y", "s">>)
T_dkeys == Str(<<"d", "k", "e", "y", "s">>)
T_htol == Str(<<"h", "t", "o", "l">>)
T_rtol == Str(<<"r", "t", "o", "l">>)
T_trdt == Str(<<"t", "r", "d", "t">>)
T_ares == Str(<<"a", "r", "e", "s">>)

\* FIRMWARE_VERSION of definitions.hpp.
FIRMWARE_VERSION == Str(<<"0">>)

\* printf("%d") of a bool.
Flag(b) == IF b THEN 1 ELSE 0

\* "GET <field>=<text>"
GetLine(field, text) == T_GET \o field \o T_eq \o text

\* "GET <prefix><N>.<setting>=<value>"
GetKeyLine(prefix, index, setting, value) ==
  GetLine(prefix \o Dec(index + 1) \o <<DOT>> \o setting, Dec(value))

\* printHEKeyOutput: "OUT hkey<N>=<raw> <mapped>"
printHEKeyOutput(index) ==
  T_OUT \o W_hkey \o Dec(index + 1) \o T_eq \o Dec(heKeyStates[index].lastSensorValue)
        \o <<SP>> \o Dec(heKeyStates[index].lastMappedValue)

\* The lines of one hall effect key with the two hysteresis values exchanged.
GetHEKey_exchanged(i) ==
  << GetKeyLine(W_hkey, i, W_rt, Flag(heKeys[i].rapidTrigger)),
     GetKeyLine(W_hkey, i, W_crt, Flag(heKeys[i].continuousRapidTrigger)),
     GetKeyLine(W_hkey, i, W_rtus, heKeys[i].rapidTriggerUpSensitivity),
     GetKeyLine(W_hkey, i, W_rtds, heKeys[i].rapidTriggerDownSensitivity),
     GetKeyLine(W_hkey, i, W_lh, heKeys[i].upperHysteresis),
     GetKeyLine(W_hkey, i, W_uh, heKeys[i].lowerHysteresis),
     GetKeyLine(W_hkey, i, W_char, heKeys[i].keyChar),
     GetKeyLine(W_hkey, i, W_rest, heKeyStates[i].restPosition),
     GetKeyLine(W_hkey, i, W_down, heKeyStates[i].downPosition),
     GetKeyLine(W_hkey, i, W_hid, Flag(heKeys[i].hidEnabled)) >>

\* The lines of one hall effect key in get() (lines 183-192).
GetHEKey(i) ==
  << GetKeyLine(W_hkey, i, W_rt, Flag(heKeys[i].rapidTrigger)),
     GetKeyLine(W_hkey, i, W_crt, Flag(heKeys[i].continuousRapidTrigger)),
     GetKeyLine(W_hkey, i, W_rtus, heKeys[i].rapidTriggerUpSensitivity),
     GetKeyLine(W_hkey, i, W_rtds, heKeys[i].rapidTriggerDownSensitivity),
     GetKeyLine(W_hkey, i, W_lh, heKeys[i].lowerHysteresis),
     GetKeyLine(W_hkey, i, W_uh, heKeys[i].upperHysteresis),
     GetKeyLine(W_hkey, i, W_char, heKeys[i].keyChar),
     GetKeyLine(W_hkey, i, W_rest, heKeyStates[i].restPosition),
     GetKeyLine(W_hkey, i, W_down, heKeyStates[i].downPosition),
     GetKeyLine(W_hkey, i, W_hid, Flag(heKeys[i].hidEnabled)) >>

\* The lines of one digital key in get() (lines 198-199).
GetDigitalKey(i) ==
  << GetKeyLine(W_dkey, i, W_char, digitalKeys[i].keyChar),
     GetKeyLine(W_dkey, i, W_hid, Flag(digitalKeys[i].hidEnabled)) >>

\* The range-for loops of get() over the first n keys.
RECURSIVE GetHEKeys(_)
GetHEKeys(n) == IF n = 0 THEN <<>> ELSE GetHEKeys(n - 1) \o GetHEKey(n - 1)

RECURSIVE GetDigitalKeys(_)
GetDigitalKeys(n) == IF n = 0 THEN <<>> ELSE GetDigitalKeys(n - 1) \o GetDigitalKey(n - 1)

(***************************************************************************)
(* Global commands of src/unnamed/part_000                                 *)
(***************************************************************************)
\* get(): what it prints (DEV is 1).
get ==
  << GetLine(T_version, FIRMWARE_VERSION \o T_dev),
     GetLine(T_hkeys, Dec(HE_KEYS)),
     GetLine(T_dkeys, Dec(DIGITAL_KEYS)),
     GetLine(W_name, configName),
     GetLine(T_htol, Dec(HYSTERESIS_TOLERANCE)),
     GetLine(T_rtol, Dec(RAPID_TRIGGER_TOLERANCE)),
     GetLine(T_trdt, Dec(TRAVEL_DISTANCE_IN_0_01MM)),
     GetLine(T_ares, Dec(ANALOG_RESOLUTION)) >>
  \o GetHEKeys(HE_KEYS)
  \o GetDigitalKeys(DIGITAL_KEYS)
  \o <<T_END>>

\* name(): the device name after the command.
name(parameters) ==
  IF Len(parameters) >= 1 /\ Len(parameters) <= 128 THEN parameters ELSE configName

\* out() turning the streaming on as it prints the single dump.
out_streaming(single, state) ==
  IF single
  THEN [outputMode |-> TRUE, output |-> [i \in 1..HE_KEYS |-> printHEKeyOutput(i - 1)]]
  ELSE [outputMode |-> state, output |-> <<>>]

\* out(): the streaming flag after the command, and what it prints.
out(single, state) ==
  IF single
  THEN [outputMode |-> outputMode, output |-> [i \in 1..HE_KEYS |-> printHEKeyOutput(i - 1)]]
  ELSE [outputMode |-> state, output |-> <<>>]

\* char *parameters = input + strlen(command), one further if a space follows.
Parameters(in, command) ==
  LET rest == SubSeq(in, Len(command) + 1, Len(in))
  IN  IF StartsWith(rest, <<SP>>) THEN Tail(rest) ELSE rest

\* The buffer with the command word alone made lowercase.
Lowered_command_only(line) ==
  [i \in 1..Len(line) |->
     IF \E j \in 1..i : line[j] = SP THEN line[i] ELSE ToLowerChar(line[i])]

\* StringHelper::toLower(input): the whole input buffer made lowercase (line 21).
Lowered(line) == ToLower(line)

\* save() that leaves the stored copy as it is.
save_skipped == stored

\* save(): the stored copy after ConfigController.saveConfig().
save == Config

\* SerialHandler::handleSerialInput(char *input) of src/unnamed/part_000: what
\* handling the line does to the device.
Handle(line) ==
  LET in         == Lowered(line)
      command    == GetArgumentAt(in, SP, 0)
      parameters == Parameters(in, command)
      arg0       == GetArgumentAt(parameters, SP, 0)
      isOut      == IsEqual(command, W_out)
  IN  /\ firmware = "hkey"
      /\ ~booted
      /\ booted' = IsEqual(command, W_boot)
      /\ stored' = IF IsEqual(command, W_save) THEN save ELSE stored
      /\ configName' = IF IsEqual(command, W_name) THEN name(parameters) ELSE configName
      /\ outputMode' = IF isOut THEN out(IsEqual(arg0, <<>>), IsTrue(arg0)).outputMode
                       ELSE outputMode
      /\ output' = IF IsEqual(command, W_get) THEN get
                   ELSE IF isOut THEN out(IsEqual(arg0, <<>>), IsTrue(arg0)).output
                   ELSE IF IsEqual(command, W_echo) THEN <<parameters>>
                   ELSE <<>>
      /\ heKeys' = HkeyBranch(command, arg0, heKeys)
      /\ digitalKeys' = DkeyBranch(command, arg0, digitalKeys)
      /\ UNCHANGED <<firmware, heKeyStates>>

\* The handler run on a line received over serial; input keeps the line.
handleSerialInput(line) == input' = line /\ Handle(line)

(***************************************************************************)
(* src/src/handlers/serial_handler.cpp                                     *)
(***************************************************************************)
\* #if DEBUG: the echo command is compiled in only in a debug build.
DEBUG == FALSE

\* What a read of memory the program never wrote may find there.
Garbage == {<<>>, Str(<<"1">>), Str(<<"z", "z">>), Str(<<"3", "0", "0">>)}

legacy_key_rt(key, state) == [key EXCEPT !.rapidTrigger = state]

legacy_key_crt(key, state) == [key EXCEPT !.continuousRapidTrigger = state]

legacy_key_rtus(key, value) ==
  IF value >= RAPID_TRIGGER_TOLERANCE /\ value <= TRAVEL_DISTANCE_IN_0_01MM
  THEN [key EXCEPT !.rapidTriggerUpSensitivity = value]
  ELSE key

legacy_key_rtds(key, value) ==
  IF value >= RAPID_TRIGGER_TOLERANCE /\ value <= TRAVEL_DISTANCE_IN_0_01MM
  THEN [key EXCEPT !.rapidTriggerDownSensitivity = value]
  ELSE key

legacy_key_lh(key, value) ==
  IF key.upperHysteresis - value >= HYSTERESIS_TOLERANCE
  THEN [key EXCEPT !.lowerHysteresis = value]
  ELSE key

legacy_key_uh(key, value) ==
  IF /\ value - key.lowerHysteresis >= HYSTERESIS_TOLERANCE
     /\ TRAVEL_DISTANCE_IN_0_01MM - value >= HYSTERESIS_TOLERANCE
  THEN [key EXCEPT !.upperHysteresis = value]
  ELSE key

\* Only a letter with a byte value between 97 and 122 is taken.
legacy_key_char(key, keyChar) ==
  IF keyChar >= 97 /\ keyChar <= 122 THEN [key EXCEPT !.keyChar = keyChar] ELSE key

\* key_rest taking a value equal to the down position.
legacy_key_rest_not_strict(key, value) ==
  IF value >= key.downPosition /\ value <= MaxAnalog
  THEN [key EXCEPT !.restPosition = value]
  ELSE key

legacy_key_rest(key, value) ==
  IF value > key.downPosition /\ value <= MaxAnalog
  THEN [key EXCEPT !.restPosition = value]
  ELSE key

legacy_key_down(key, value) ==
  IF value < key.restPosition THEN [key EXCEPT !.downPosition = value] ELSE key

legacy_key_hid(key, state) == [key EXCEPT !.hidEnabled = state]

\* dkey_char and dkey_hid are called by the handler and defined in no file of src/.
dkey_char(key, keyChar) == [key EXCEPT !.keyChar = keyChar]

dkey_hid(key, state) == [key EXCEPT !.hidEnabled = state]

\* The if/else-if chain over the setting of a hall effect key (lines 77-96).
KeySetting(key, setting, arg0) ==
  IF IsEqual(setting, W_rt) THEN legacy_key_rt(key, IsTrue(arg0))
  ELSE IF IsEqual(setting, W_crt) THEN legacy_key_crt(key, IsTrue(arg0))
  ELSE IF IsEqual(setting, W_rtus) THEN legacy_key_rtus(key, ToUint16(Atoi(arg0)))
  ELSE IF IsEqual(setting, W_rtds) THEN legacy_key_rtds(key, ToUint16(Atoi(arg0)))
  ELSE IF IsEqual(setting, W_lh) THEN legacy_key_lh(key, ToUint16(Atoi(arg0)))
  ELSE IF IsEqual(setting, W_uh) THEN legacy_key_uh(key, ToUint16(Atoi(arg0)))
  ELSE IF IsEqual(setting, W_char) THEN legacy_key_char(key, ToUint8(Atoi(arg0)))
  ELSE IF IsEqual(setting, W_rest) THEN legacy_key_rest(key, ToUint16(Atoi(arg0)))
  ELSE IF IsEqual(setting, W_down) THEN legacy_key_down(key, ToUint16(Atoi(arg0)))
  ELSE IF IsEqual(setting, W_hid) THEN legacy_key_hid(key, IsTrue(arg0))
  ELSE key

\* The if/else-if chain over the setting of a digital key (lines 131-134).
LegacyDkeySetting(key, setting, arg0) ==
  IF IsEqual(setting, W_char) THEN dkey_char(key, ToUint8(Atoi(arg0)))
  ELSE IF IsEqual(setting, W_hid) THEN dkey_hid(key, IsTrue(arg0))
  ELSE key

\* The hall effect key branch (lines 47-98).
KeyBranch(command, arg0, keys) ==
  IF StartsWith(command, W_key)
  THEN LET keyStr  == GetArgumentAt(command, DOT, 0)
           setting == GetArgumentAt(command, DOT, 1)
           targets == Targets(keyStr, 3, HE_KEYS)
       IN  [i \in HEIndex |->
              IF i \in targets THEN KeySetting(keys[i], setting, arg0) ELSE keys[i]]
  ELSE keys

\* The digital key branch (lines 101-136).
LegacyDkeyBranch(command, arg0, keys) ==
  IF StartsWith(command, W_dkey)
  THEN LET keyStr  == GetArgumentAt(command, DOT, 0)
           setting == GetArgumentAt(command, DOT, 1)
           targets == Targets(keyStr, 4, DIGITAL_KEYS)
       IN  [i \in DigitalIndex |->
              IF i \in targets THEN LegacyDkeySetting(keys[i], setting, arg0) ELSE keys[i]]
  ELSE keys

\* The lines of one hall effect key in get() (lines 166-175).
LegacyGetHEKey(i) ==
  << GetKeyLine(W_key, i, W_rt, Flag(heKeys[i].rapidTrigger)),
     GetKeyLine(W_key, i, W_crt, Flag(heKeys[i].continuousRapidTrigger)),
     GetKeyLine(W_key, i, W_rtus, heKeys[i].rapidTriggerUpSensitivity),
     GetKeyLine(W_key, i, W_rtds, heKeys[i].rapidTriggerDownSensitivity),
     GetKeyLine(W_key, i, W_lh, heKeys[i].lowerHysteresis),
     GetKeyLine(W_key, i, W_uh, heKeys[i].upperHysteresis),
     GetKeyLine(W_key, i, W_key, heKeys[i].keyChar),
     GetKeyLine(W_key, i, W_rest, heKeys[i].restPosition),
     GetKeyLine(W_key, i, W_down, heKeys[i].downPosition),
     GetKeyLine(W_key, i, W_hid, Flag(heKeys[i].hidEnabled)) >>

RECURSIVE LegacyGetHEKeys(_)
LegacyGetHEKeys(n) ==
  IF n = 0 THEN <<>> ELSE LegacyGetHEKeys(n - 1) \o LegacyGetHEKey(n - 1)

\* get(): what it prints. "%s" is handed the integers HE_KEYS and DIGITAL_KEYS:
\* the text printed for them is whatever lies at that address.
legacy_get(junk) ==
  << GetLine(T_version, FIRMWARE_VERSION \o (IF DEBUG THEN T_dev ELSE <<>>)),
     GetLine(T_hkeys, junk),
     GetLine(T_dkeys, junk),
     GetLine(W_name, configName),
     GetLine(T_htol, Dec(HYSTERESIS_TOLERANCE)),
     GetLine(T_rtol, Dec(RAPID_TRIGGER_TOLERANCE)),
     GetLine(T_trdt, Dec(TRAVEL_DISTANCE_IN_0_01MM)) >>
  \o LegacyGetHEKeys(HE_KEYS)
  \o <<T_END>>

\* name(): the device name after the command.
legacy_name(parameters) ==
  IF Len(parameters) >= 1 /\ Len(parameters) <= 128 THEN parameters ELSE configName

\* out(): the streaming flag after the command.
legacy_out(state) == state

\* char *parameters = input + strlen(command) + 1. When the line holds no space
\* this is one past the terminator of the buffer, and what is read there is `junk`.
LegacyParameters(in, command, junk) ==
  IF Len(command) = Len(in) THEN junk ELSE SubSeq(in, Len(command) + 2, Len(in))

\* SerialHandler::handleSerialInput(String *inputStr) of
\* src/src/handlers/serial_handler.cpp.
LegacyHandle(line, junk) ==
  LET in         == ToLower(line)
      command    == GetArgumentAt(in, SP, 0)
      parameters == LegacyParameters(in, command, junk)
      arg0       == GetArgumentAt(parameters, SP, 0)
  IN  /\ firmware = "key"
      /\ ~booted
      /\ booted' = IsEqual(command, W_boot)
      /\ stored' = IF IsEqual(command, W_save) THEN Config ELSE stored
      /\ configName' = IF IsEqual(command, W_name) THEN legacy_name(parameters)
                       ELSE configName
      /\ outputMode' = IF IsEqual(command, W_out) THEN legacy_out(IsTrue(arg0))
                       ELSE outputMode
      /\ output' = IF IsEqual(command, W_get) THEN legacy_get(junk)
                   ELSE IF DEBUG /\ IsEqual(command, W_echo) THEN <<parameters>>
                   ELSE <<>>
      /\ heKeys' = KeyBranch(command, arg0, heKeys)
      /\ digitalKeys' = LegacyDkeyBranch(command, arg0, digitalKeys)
      /\ UNCHANGED <<firmware, heKeyStates>>

\* The handler run on a line received over serial; input keeps the line.
legacy_handleSerialInput(line, junk) == input' = line /\ LegacyHandle(line, junk)

(***************************************************************************)
(* Initial states: the configuration the firmware starts with              *)
(***************************************************************************)
Firmwares == {"hkey", "key"}

\* A key in the middle of its ranges.
MidKey ==
  [rapidTrigger |-> FALSE, continuousRapidTrigger |-> FALSE,
   rapidTriggerUpSensitivity |-> 50, rapidTriggerDownSensitivity |-> 50,
   lowerHysteresis |-> 200, upperHysteresis |-> 300,
   keyChar |-> 122, hidEnabled |-> FALSE]

\* A key at the edges of its ranges.
EdgeKey ==
  [rapidTrigger |-> TRUE, continuousRapidTrigger |-> TRUE,
   rapidTriggerUpSensitivity |-> RAPID_TRIGGER_TOLERANCE,
   rapidTriggerDownSensitivity |-> TRAVEL_DISTANCE_IN_0_01MM,
   lowerHysteresis |-> TRAVEL_DISTANCE_IN_0_01MM - 2 * HYSTERESIS_TOLERANCE,
   upperHysteresis |-> TRAVEL_DISTANCE_IN_0_01MM - HYSTERESIS_TOLERANCE,
   keyChar |-> 120, hidEnabled |-> TRUE]

\* The calibration points, which the "key" firmware keeps in the key's configuration.
MidCalibration  == [restPosition |-> MaxAnalog, downPosition |-> 0]
EdgeCalibration == [restPosition |-> 2000, downPosition |-> 1999]

\* r with the fields of c added.
WithFields(r, c) ==
  [f \in DOMAIN r \cup DOMAIN c |-> IF f \in DOMAIN c THEN c[f] ELSE r[f]]

InitHEKeys(fw) ==
  LET mid  == IF fw = "key" THEN WithFields(MidKey, MidCalibration) ELSE MidKey
      edge == IF fw = "key" THEN WithFields(EdgeKey, EdgeCalibration) ELSE EdgeKey
  IN  { [i \in HEIndex |-> IF i = 1 THEN edge ELSE mid] }

InitDigitalKeys == [i \in DigitalIndex |-> [keyChar |-> 97 + i, hidEnabled |-> (i % 2 = 0)]]

InitHEKeyStates ==
  [i \in HEIndex |->
     [lastSensorValue |-> MaxAnalog - i, lastMappedValue |-> i,
      restPosition |-> MaxAnalog, downPosition |-> 0]]

Init ==
  /\ firmware \in Firmwares
  /\ heKeys \in InitHEKeys(firmware)
  /\ digitalKeys = InitDigitalKeys
  /\ configName = Str(<<"m", "i", "n", "i", "p", "a", "d">>)
  /\ outputMode = FALSE
  /\ heKeyStates = InitHEKeyStates
  /\ stored = Config
  /\ booted = FALSE
  /\ output = <<>>
  /\ input = <<>>

(***************************************************************************)
(* Command lines                                                           *)
(***************************************************************************)
\* "<prefix><index>.<setting> <argument>"
KeyLine(prefix, index, setting, argument) ==
  prefix \o index \o <<DOT>> \o setting \o <<SP>> \o argument

KeyLines(prefix, indexes, settings, arguments) ==
  { KeyLine(prefix, i, s, a) : i \in indexes, s \in settings, a \in arguments }

\* The index texts: none (every key) and the second hall effect key.
NoIndex == <<>>
SomeHEIndexes == {NoIndex, Dec(2)}

\* Arguments of lh and uh: around the tolerance, and beyond the 16 bits of the value.
HysteresisArguments ==
  { Dec(0), Dec(205),
    Dec(TRAVEL_DISTANCE_IN_0_01MM - HYSTERESIS_TOLERANCE),
    Dec(TRAVEL_DISTANCE_IN_0_01MM - HYSTERESIS_TOLERANCE + 1),
    Dec(65536 + HYSTERESIS_TOLERANCE), Dec(200 - 65536) }

HkeyHysteresisLines == KeyLines(W_hkey, SomeHEIndexes, {W_lh, W_uh}, HysteresisArguments)
KeyHysteresisLines == KeyLines(W_key, SomeHEIndexes, {W_lh, W_uh}, HysteresisArguments)

\* What the "key" firmware may read past the end of a line: nothing it did not
\* write when the line holds a space.
JunkFor(line) == IF \E i \in 1..Len(line) : line[i] = SP THEN {<<>>} ELSE Garbage

(***************************************************************************)
(* Actions: one per kind of command line handed to the handler             *)
(***************************************************************************)
\* hkey<N>.lh, hkey<N>.uh
SetHysteresis == \E line \in HkeyHysteresisLines : handleSerialInput(line)

\* key<N>.lh, key<N>.uh
LegacySetHysteresis ==
  \E line \in KeyHysteresisLines : \E junk \in JunkFor(line) :
    legacy_handleSerialInput(line, junk)

HysteresisNext == SetHysteresis \/ LegacySetHysteresis

HysteresisSpec == Init /\ [][HysteresisNext]_vars

\* Arguments of rtus and rtds: around both ends of the range, and beyond 16 bits.
SensitivityArguments ==
  { Dec(RAPID_TRIGGER_TOLERANCE - 1), Dec(RAPID_TRIGGER_TOLERANCE),
    Dec(TRAVEL_DISTANCE_IN_0_01MM), Dec(TRAVEL_DISTANCE_IN_0_01MM + 1),
    Dec(65536 + 60), Dec(0 - 1) }

HkeySensitivityLines == KeyLines(W_hkey, SomeHEIndexes, {W_rtus, W_rtds}, SensitivityArguments)
KeySensitivityLines == KeyLines(W_key, SomeHEIndexes, {W_rtus, W_rtds}, SensitivityArguments)

\* hkey<N>.rtus, hkey<N>.rtds
SetSensitivity == \E line \in HkeySensitivityLines : handleSerialInput(line)

\* key<N>.rtus, key<N>.rtds
LegacySetSensitivity ==
  \E line \in KeySensitivityLines : \E junk \in JunkFor(line) :
    legacy_handleSerialInput(line, junk)

SensitivityNext == SetSensitivity \/ LegacySetSensitivity

SensitivitySpec == Init /\ [][SensitivityNext]_vars

\* Arguments of rest and down: around the other calibration point and the top of
\* the analog range, and beyond 16 bits.
CalibrationArguments ==
  { Dec(0), Dec(1999), Dec(2000), Dec(2001), Dec(MaxAnalog), Dec(MaxAnalog + 1),
    Dec(65536 + 1000) }

KeyCalibrationLines == KeyLines(W_key, SomeHEIndexes, {W_rest, W_down}, CalibrationArguments)

\* key<N>.rest, key<N>.down
LegacySetCalibration ==
  \E line \in KeyCalibrationLines : \E junk \in JunkFor(line) :
    legacy_handleSerialInput(line, junk)

\* The "key" firmware after startup.
LegacyInit == Init /\ firmware = "key"

\* The "hkey" firmware after startup.
HkeyInit == Init /\ firmware = "hkey"

CalibrationNext == LegacySetCalibration

CalibrationSpec == LegacyInit /\ [][CalibrationNext]_vars

\* "name <parameters>"
NameLine(parameters) == W_name \o <<SP>> \o parameters

\* A name of n letters.
NameOfLength(n) == [i \in 1..n |-> 97 + (i % 3)]

\* Lines of the validated setters on the second hall effect key, each with a value
\* that can pass and one that cannot, and name lines that do and do not fit.
SetterIndexes == {Dec(2)}

HkeySetterLines ==
  KeyLines(W_hkey, SetterIndexes, {W_lh},
           {Dec(0), Dec(TRAVEL_DISTANCE_IN_0_01MM - HYSTERESIS_TOLERANCE + 1)})
  \cup KeyLines(W_hkey, SetterIndexes, {W_uh},
           {Dec(205), Dec(TRAVEL_DISTANCE_IN_0_01MM - HYSTERESIS_TOLERANCE + 1)})
  \cup KeyLines(W_hkey, SetterIndexes, {W_rtus, W_rtds},
           {Dec(RAPID_TRIGGER_TOLERANCE - 1), Dec(60)})

KeySetterLines ==
  KeyLines(W_key, SetterIndexes, {W_lh},
           {Dec(0), Dec(TRAVEL_DISTANCE_IN_0_01MM - HYSTERESIS_TOLERANCE + 1)})
  \cup KeyLines(W_key, SetterIndexes, {W_uh},
           {Dec(205), Dec(TRAVEL_DISTANCE_IN_0_01MM - HYSTERESIS_TOLERANCE + 1)})
  \cup KeyLines(W_key, SetterIndexes, {W_rtus, W_rtds},
           {Dec(RAPID_TRIGGER_TOLERANCE - 1), Dec(60)})
  \cup KeyLines(W_key, SetterIndexes, {W_rest, W_down},
           {Dec(0), Dec(2500), Dec(3000), Dec(MaxAnalog + 1)})

SetterNameLines == { NameLine(NameOfLength(n)) : n \in {0, 2, 129} }

\* hkey2.<lh|uh|rtus|rtds>
SetValidated == \E line \in HkeySetterLines : handleSerialInput(line)

\* name <parameters>
SetName == \E line \in SetterNameLines : handleSerialInput(line)

\* key2.<lh|uh|rtus|rtds|rest|down>
LegacySetValidated ==
  \E line \in KeySetterLines : \E junk \in JunkFor(line) :
    legacy_handleSerialInput(line, junk)

\* name <parameters>
LegacySetName ==
  \E line \in SetterNameLines : \E junk \in JunkFor(line) :
    legacy_handleSerialInput(line, junk)

SetterNext == SetValidated \/ SetName \/ LegacySetValidated \/ LegacySetName

SetterSpec == Init /\ [][SetterNext]_vars

\* Index texts outside 1..count: 0, count + 1, 256, and 257 and 256 + count, which
\* are 1 and count modulo 256. With them the first valid index.
OutOfRange(count) == {0, count + 1, 256, 257, 256 + count}

IndexArguments == {W_1, Dec(0)}

HkeyIndexLines ==
  KeyLines(W_hkey, {Dec(n) : n \in OutOfRange(HE_KEYS) \cup {1}}, {W_rt, W_hid}, IndexArguments)
KeyIndexLines ==
  KeyLines(W_key, {Dec(n) : n \in OutOfRange(HE_KEYS) \cup {1}}, {W_rt, W_hid}, IndexArguments)
DkeyIndexLines ==
  KeyLines(W_dkey, {Dec(n) : n \in OutOfRange(DIGITAL_KEYS) \cup {1}}, {W_hid}, IndexArguments)

\* hkey<N>.<rt|hid> with N in and out of range
SetIndexed == \E line \in HkeyIndexLines : handleSerialInput(line)

\* dkey<N>.hid with N in and out of range
SetIndexedDigital == \E line \in DkeyIndexLines : handleSerialInput(line)

\* key<N>.<rt|hid> with N in and out of range
LegacySetIndexed ==
  \E line \in KeyIndexLines : \E junk \in JunkFor(line) :
    legacy_handleSerialInput(line, junk)

\* dkey<N>.hid with N in and out of range
LegacySetIndexedDigital ==
  \E line \in DkeyIndexLines : \E junk \in JunkFor(line) :
    legacy_handleSerialInput(line, junk)

IndexNext == SetIndexed \/ SetIndexedDigital \/ LegacySetIndexed \/ LegacySetIndexedDigital

IndexSpec == Init /\ [][IndexNext]_vars

\* Settings without a validation check, each argument with the value it stands for.
FlagTargetArguments ==
  { [setting |-> W_rt, field |-> "rapidTrigger", text |-> W_1,    value |-> TRUE],
    [setting |-> W_rt, field |-> "rapidTrigger", text |-> Dec(0), value |-> FALSE] }

CharTargetArguments ==
  { [setting |-> W_char, field |-> "keyChar", text |-> Str(<<"a">>), value |-> 97],
    [setting |-> W_char, field |-> "keyChar", text |-> Dec(66),      value |-> 66] }

DigitalTargetArguments ==
  { [setting |-> W_hid, field |-> "hidEnabled", text |-> W_1,    value |-> TRUE],
    [setting |-> W_hid, field |-> "hidEnabled", text |-> Dec(0), value |-> FALSE] }

\* The last key of each kind, and every key.
TargetHEIndexes == {NoIndex, Dec(HE_KEYS)}
TargetDigitalIndexes == {NoIndex, Dec(DIGITAL_KEYS)}

HkeyTargetLines ==
  { KeyLine(W_hkey, i, a.setting, a.text) : i \in TargetHEIndexes, a \in FlagTargetArguments }
  \cup { KeyLine(W_hkey, i, a.setting, a.text) : i \in TargetHEIndexes, a \in CharTargetArguments }
DkeyTargetLines ==
  { KeyLine(W_dkey, i, a.setting, a.text) : i \in TargetDigitalIndexes, a \in DigitalTargetArguments }

\* hkey<N>.<rt|char>
SetTargeted == \E line \in HkeyTargetLines : handleSerialInput(line)

\* dkey<N>.hid
SetTargetedDigital == \E line \in DkeyTargetLines : handleSerialInput(line)

TargetNext == SetTargeted \/ SetTargetedDigital

TargetSpec == HkeyInit /\ [][TargetNext]_vars

\* Lengths of the parameter of a name line: none, accepted ones, and too long ones.
NameLengths == {0, 1, 2, 3, 4, 5, 127, 128, 129, 130}

NameLines == { NameLine(NameOfLength(n)) : n \in NameLengths } \cup {W_name}

\* name <parameters>, and name alone
Rename == \E line \in NameLines : handleSerialInput(line)

\* name <parameters>, and name alone, which leaves the parameters past the buffer
LegacyRename ==
  \E line \in NameLines : \E junk \in JunkFor(line) :
    legacy_handleSerialInput(line, junk)

\* save
SaveName == handleSerialInput(W_save)

\* save, which has no parameters to read
LegacySaveName == \E junk \in JunkFor(W_save) : legacy_handleSerialInput(W_save, junk)

NameNext == Rename \/ LegacyRename \/ SaveName \/ LegacySaveName

NameSpec == Init /\ [][NameNext]_vars

\* Single characters as char arguments: the code of each, and of its lower case.
CharacterArguments ==
  { [text |-> Str(<<"a">>), code |-> 97, lowered |-> 97],
    [text |-> Str(<<"Z">>), code |-> 90, lowered |-> 122],
    [text |-> Str(<<"5">>), code |-> 53, lowered |-> 53],
    [text |-> Str(<<"0">>), code |-> 48, lowered |-> 48] }

\* Decimal integers in 0..255 as char arguments, of one digit and of more.
DecimalArguments ==
  { [text |-> Dec(0), n |-> 0],
    [text |-> Dec(5), n |-> 5],
    [text |-> Str(<<"0", "5">>), n |-> 5],
    [text |-> Dec(65), n |-> 65],
    [text |-> Dec(100), n |-> 100],
    [text |-> Dec(255), n |-> 255] }

CharTexts == {a.text : a \in CharacterArguments} \cup {d.text : d \in DecimalArguments}

HkeyCharLine(text) == KeyLine(W_hkey, Dec(2), W_char, text)
DkeyCharLine(text) == KeyLine(W_dkey, Dec(1), W_char, text)

\* hkey2.char <c|n>
SetChar == \E text \in CharTexts : handleSerialInput(HkeyCharLine(text))

\* dkey1.char <c|n>
SetDigitalChar == \E text \in CharTexts : handleSerialInput(DkeyCharLine(text))

CharNext == SetChar \/ SetDigitalChar

CharSpec == HkeyInit /\ [][CharNext]_vars

\* Arguments of the boolean commands, each with the state it stands for.
FlagArguments ==
  { [text |-> W_1,                         on |-> TRUE],
    [text |-> W_true,                      on |-> TRUE],
    [text |-> Str(<<"T", "R", "U", "E">>), on |-> TRUE],
    [text |-> Dec(0),                      on |-> FALSE],
    [text |-> Str(<<"t", "r", "u">>),      on |-> FALSE],
    [text |-> Dec(11),                     on |-> FALSE] }

OutLine(argument) == W_out \o <<SP>> \o argument

\* hkey2.rt <arg>, hkey2.crt <arg>
SetFlag ==
  \E a \in FlagArguments : \E setting \in {W_rt, W_crt} :
    handleSerialInput(KeyLine(W_hkey, Dec(2), setting, a.text))

\* hkey.hid <arg>
SetHid == \E a \in FlagArguments : handleSerialInput(KeyLine(W_hkey, NoIndex, W_hid, a.text))

\* dkey1.hid <arg>
SetDigitalHid ==
  \E a \in FlagArguments : handleSerialInput(KeyLine(W_dkey, Dec(1), W_hid, a.text))

\* out <arg>
SetOut == \E a \in FlagArguments : handleSerialInput(OutLine(a.text))

FlagNext == SetFlag \/ SetHid \/ SetDigitalHid \/ SetOut

FlagSpec == HkeyInit /\ [][FlagNext]_vars

\* out alone, in either case and with a trailing space: the single dump.
DumpLines == {W_out, Str(<<"O", "U", "T">>), W_out \o <<SP>>}

\* Lines that change the name, a hysteresis value and a digital key.
ChangeLines ==
  { NameLine(Str(<<"a", "b">>)), NameLine(Str(<<"c", "d">>)),
    KeyLine(W_hkey, Dec(2), W_lh, Dec(370)), KeyLine(W_hkey, Dec(2), W_lh, Dec(380)),
    KeyLine(W_dkey, Dec(1), W_hid, Dec(0)), KeyLine(W_dkey, Dec(1), W_hid, W_1) }

\* Lines with a command word the handler does not know.
UnknownCommandLines ==
  { <<>>, Str(<<"f", "o", "o">>), Str(<<"f", "o", "o", " ", "1">>),
    Str(<<"g", "e", "t", "t">>), Str(<<"n", "a", "m", "e", "s", " ", "a", "b">>),
    Str(<<"s", "a", "v", "e", ".", "l", "h", " ", "1", "0", "0">>),
    Str(<<"k", "e", "y", "2", ".", "l", "h", " ", "1", "0", "0">>) }

\* Key lines with a setting the key kind does not have, or with none.
UnknownSettingLines ==
  { KeyLine(W_hkey, Dec(2), Str(<<"x", "y", "z">>), W_1),
    KeyLine(W_hkey, Dec(2), W_rest, Dec(100)),
    KeyLine(W_hkey, NoIndex, W_down, Dec(100)),
    KeyLine(W_hkey, Dec(2), <<>>, Dec(100)),
    W_hkey \o Dec(2) \o <<SP>> \o Dec(100),
    W_hkey \o Dec(2),
    KeyLine(W_dkey, Dec(1), W_rt, W_1),
    KeyLine(W_dkey, NoIndex, W_lh, Dec(100)),
    W_dkey \o Dec(1) \o <<SP>> \o W_1 }

\* out
Dump == \E line \in DumpLines : handleSerialInput(line)

\* out <0|1>
Stream == \E argument \in {Dec(0), W_1} : handleSerialInput(OutLine(argument))

\* get
Get == handleSerialInput(W_get)

\* save
Save == handleSerialInput(W_save)

\* name <parameters>, hkey2.lh <value>, dkey1.hid <state>
Change == \E line \in ChangeLines : handleSerialInput(line)

\* lines the handler has no command or setting for
Unknown == \E line \in UnknownCommandLines \cup UnknownSettingLines : handleSerialInput(line)

ProtocolNext == Dump \/ Stream \/ Get \/ Save \/ Change \/ Unknown

ProtocolSpec == HkeyInit /\ [][ProtocolNext]_vars

\* Lines with upper case letters, each with the same line in lower case.
CasePairs ==
  { [line  |-> Str(<<"N", "A", "M", "E", " ", "A", "b", "C">>),
     lower |-> Str(<<"n", "a", "m", "e", " ", "a", "b", "c">>)],
    [line  |-> Str(<<"n", "a", "m", "e", " ", "X", "Y">>),
     lower |-> Str(<<"n", "a", "m", "e", " ", "x", "y">>)],
    [line  |-> Str(<<"H", "K", "E", "Y", "2", ".", "R", "T", " ", "F", "a", "l", "s", "e">>),
     lower |-> Str(<<"h", "k", "e", "y", "2", ".", "r", "t", " ", "f", "a", "l", "s", "e">>)],
    [line  |-> Str(<<"h", "k", "e", "y", "2", ".", "c", "h", "a", "r", " ", "Z">>),
     lower |-> Str(<<"h", "k", "e", "y", "2", ".", "c", "h", "a", "r", " ", "z">>)],
    [line  |-> Str(<<"K", "e", "y", "2", ".", "C", "R", "T", " ", "0">>),
     lower |-> Str(<<"k", "e", "y", "2", ".", "c", "r", "t", " ", "0">>)],
    [line  |-> Str(<<"k", "e", "y", "2", ".", "c", "h", "a", "r", " ", "Z">>),
     lower |-> Str(<<"k", "e", "y", "2", ".", "c", "h", "a", "r", " ", "z">>)],
    [line  |-> Str(<<"D", "k", "e", "y", "1", ".", "H", "I", "D", " ", "T", "R", "U", "E">>),
     lower |-> Str(<<"d", "k", "e", "y", "1", ".", "h", "i", "d", " ", "t", "r", "u", "e">>)],
    [line  |-> Str(<<"d", "k", "e", "y", "1", ".", "h", "i", "d", " ", "O", "F", "F">>),
     lower |-> Str(<<"d", "k", "e", "y", "1", ".", "h", "i", "d", " ", "o", "f", "f">>)],
    [line  |-> Str(<<"O", "U", "T", " ", "T", "r", "u", "e">>),
     lower |-> Str(<<"o", "u", "t", " ", "t", "r", "u", "e">>)],
    [line  |-> Str(<<"o", "u", "t", " ", "N", "O">>),
     lower |-> Str(<<"o", "u", "t", " ", "n", "o">>)],
    [line  |-> Str(<<"O", "u", "t">>),  lower |-> Str(<<"o", "u", "t">>)],
    [line  |-> Str(<<"G", "E", "T">>),  lower |-> Str(<<"g", "e", "t">>)],
    [line  |-> Str(<<"S", "a", "v", "e">>), lower |-> Str(<<"s", "a", "v", "e">>)],
    [line  |-> Str(<<"E", "C", "H", "O", " ", "H", "i">>),
     lower |-> Str(<<"e", "c", "h", "o", " ", "h", "i">>)] }

\* a line with upper case letters
HandleMixedCase == \E p \in CasePairs : handleSerialInput(p.line)

\* a line with upper case letters
LegacyHandleMixedCase ==
  \E p \in CasePairs : \E junk \in JunkFor(p.line) : legacy_handleSerialInput(p.line, junk)

CaseNext == HandleMixedCase \/ LegacyHandleMixedCase

CaseSpec == Init /\ [][CaseNext]_vars

(***************************************************************************)
(* Key actuation engine (KeypadHandler): travel mapper and the two policies *)
(***************************************************************************)
\* The runtime state of a key that has seen no sample has no extremum.
NoExtremum == -1

Clamp(v, lo, hi) == IF v < lo THEN lo ELSE IF v > hi THEN hi ELSE v

\* The mapper with the raw reading measured from the down position.
MapTravel_from_down(raw, rest, down) ==
  Clamp(((raw - down) * TRAVEL_DISTANCE_IN_0_01MM) \div (rest - down),
        0, TRAVEL_DISTANCE_IN_0_01MM)

\* The mapper without the clamp.
MapTravel_unclamped(raw, rest, down) ==
  ((rest - raw) * TRAVEL_DISTANCE_IN_0_01MM) \div (rest - down)

\* Travel mapper: clamp((rest - raw) * maxTravel / (rest - down), 0, maxTravel).
MapTravel(raw, rest, down) ==
  Clamp(((rest - raw) * TRAVEL_DISTANCE_IN_0_01MM) \div (rest - down),
        0, TRAVEL_DISTANCE_IN_0_01MM)

\* The policy with the upper threshold alone.
HysteresisPolicy_one_threshold(key, state, travel) ==
  [pressed |-> travel >= key.upperHysteresis, extremum |-> state.extremum]

\* Hysteresis policy: pressed at or above the upper threshold, released at or below
\* the lower one, held in between.
HysteresisPolicy(key, state, travel) ==
  [pressed  |-> IF ~state.pressed /\ travel >= key.upperHysteresis THEN TRUE
                ELSE IF state.pressed /\ travel <= key.lowerHysteresis THEN FALSE
                ELSE state.pressed,
   extremum |-> state.extremum]

\* The policy keeping the extremum it had when it flips.
RapidTriggerPolicy_stale_extremum(key, state, travel) ==
  IF state.extremum = NoExtremum
  THEN [pressed |-> state.pressed, extremum |-> travel]
  ELSE IF ~state.pressed
  THEN IF state.extremum - travel >= key.rapidTriggerDownSensitivity
       THEN [pressed |-> TRUE, extremum |-> state.extremum]
       ELSE [pressed |-> FALSE,
             extremum |-> IF travel > state.extremum THEN travel ELSE state.extremum]
  ELSE IF travel - state.extremum >= key.rapidTriggerUpSensitivity
       THEN [pressed |-> FALSE, extremum |-> state.extremum]
       ELSE [pressed |-> TRUE,
             extremum |-> IF travel < state.extremum THEN travel ELSE state.extremum]

\* Rapid-trigger policy, non-continuous: the extremum is the extreme travel since
\* the last flip; a released key is pressed when the travel has come down from the
\* extremum by the down sensitivity, a pressed key is released when it has gone up
\* from the extremum by the up sensitivity; a flip sets the extremum to the travel.
RapidTriggerPolicy(key, state, travel) ==
  IF state.extremum = NoExtremum
  THEN [pressed |-> state.pressed, extremum |-> travel]
  ELSE IF ~state.pressed
  THEN IF state.extremum - travel >= key.rapidTriggerDownSensitivity
       THEN [pressed |-> TRUE, extremum |-> travel]
       ELSE [pressed |-> FALSE,
             extremum |-> IF travel > state.extremum THEN travel ELSE state.extremum]
  ELSE IF travel - state.extremum >= key.rapidTriggerUpSensitivity
       THEN [pressed |-> FALSE, extremum |-> travel]
       ELSE [pressed |-> TRUE,
             extremum |-> IF travel < state.extremum THEN travel ELSE state.extremum]

\* One evaluation of key k on a raw sample: map it, run the key's policy, count the
\* press or release it emits. A key whose rest and down positions are equal is not
\* evaluated. input keeps the samples taken.
Sample(k, raw) ==
  LET state  == heKeyStates[k]
      key    == heKeys[k]
      travel == MapTravel(raw, state.restPosition, state.downPosition)
      after  == IF key.rapidTrigger THEN RapidTriggerPolicy(key, state, travel)
                ELSE HysteresisPolicy(key, state, travel)
  IN  /\ ~booted
      /\ ~key.continuousRapidTrigger
      /\ IF state.restPosition = state.downPosition
         THEN UNCHANGED <<heKeyStates, input>>
         ELSE /\ heKeyStates' =
                   [heKeyStates EXCEPT ![k] =
                      [state EXCEPT !.lastSensorValue = raw,
                                    !.lastMappedValue = travel,
                                    !.pressed = after.pressed,
                                    !.extremum = after.extremum,
                                    !.pressEvents =
                                       @ + (IF after.pressed /\ ~state.pressed THEN 1 ELSE 0),
                                    !.releaseEvents =
                                       @ + (IF state.pressed /\ ~after.pressed THEN 1 ELSE 0)]]
              /\ input' = Append(input, [key |-> k, raw |-> raw, travel |-> travel])
      /\ output' = <<>>
      /\ UNCHANGED <<firmware, heKeys, digitalKeys, configName, outputMode, stored, booted>>

\* Calibrations of the first key: the one of the scenario, the widest, the narrowest.
Calibrations ==
  { [restPosition |-> 3800, downPosition |-> 200],
    [restPosition |-> MaxAnalog, downPosition |-> 0],
    [restPosition |-> 2001, downPosition |-> 2000] }

\* The keys of the engine: the first under the hysteresis policy, the second under
\* the rapid-trigger policy, the third as the first.
EngineKeys(upSensitivity) ==
  [i \in HEIndex |->
     [rapidTrigger |-> (i = 1), continuousRapidTrigger |-> FALSE,
      rapidTriggerUpSensitivity |-> upSensitivity, rapidTriggerDownSensitivity |-> 20,
      lowerHysteresis |-> 100, upperHysteresis |-> 300,
      keyChar |-> 120 + i, hidEnabled |-> TRUE]]

\* Runtime state at startup: released, no extremum, the key at rest.
EngineKeyStates(calibration) ==
  [i \in HEIndex |->
     LET c == IF i = 0 THEN calibration ELSE [restPosition |-> 3800, downPosition |-> 200]
     IN  [lastSensorValue |-> c.restPosition, lastMappedValue |-> 0,
          restPosition |-> c.restPosition, downPosition |-> c.downPosition,
          pressed |-> FALSE, extremum |-> NoExtremum,
          pressEvents |-> 0, releaseEvents |-> 0]]

EngineInit ==
  /\ firmware = "hkey"
  /\ \E upSensitivity \in {10, 20} : heKeys = EngineKeys(upSensitivity)
  /\ digitalKeys = InitDigitalKeys
  /\ configName = Str(<<"m", "i", "n", "i", "p", "a", "d">>)
  /\ outputMode = FALSE
  /\ \E calibration \in Calibrations : heKeyStates = EngineKeyStates(calibration)
  /\ stored = Config
  /\ booted = FALSE
  /\ output = <<>>
  /\ input = <<>>

\* The longest run of samples on the hysteresis key, and on the rapid-trigger key.
MaxSamples == 3
MaxTravelSamples == 4

\* Raw readings: the ends of the range, the calibration points, and the readings
\* that map to the thresholds and to either side of them.
RawSamples == {0, 200, 1091, 1100, 1109, 2000, 2001, 2891, 2900, 2909, 3800, MaxAnalog}

\* Raw readings of the rapid-trigger key, which map to travel 60, 50, 49, 40, 29, 9.
RapidRawSamples == {3260, 3350, 3359, 3440, 3539, 3719}

\* a sample of the key under the hysteresis policy
SampleHysteresis ==
  /\ Len(input) < MaxSamples
  /\ \E raw \in RawSamples : Sample(0, raw)

\* a sample of the key under the rapid-trigger policy
SampleRapidTrigger ==
  /\ Len(input) < MaxTravelSamples
  /\ \E raw \in RapidRawSamples : Sample(1, raw)

EngineNext == SampleHysteresis

EngineSpec == EngineInit /\ [][EngineNext]_vars

RapidInit == EngineInit /\ heKeyStates[0].restPosition = 3800

RapidNext == SampleRapidTrigger

RapidSpec == RapidInit /\ [][RapidNext]_vars

\* Arguments of the validated settings, each with the argument in 0..65535 that is
\* congruent to it modulo 2^16: 65536 more, and negative ones.
WidthArguments ==
  { [setting |-> W_lh,   n |-> 205 + 65536,  same |-> 205],
    [setting |-> W_lh,   n |-> 370 - 65536,  same |-> 370],
    [setting |-> W_lh,   n |-> 385 + 65536,  same |-> 385],
    [setting |-> W_uh,   n |-> 300 + 65536,  same |-> 300],
    [setting |-> W_uh,   n |-> 390 - 65536,  same |-> 390],
    [setting |-> W_uh,   n |-> -1,           same |-> 65535],
    [setting |-> W_rtus, n |-> 60 + 65536,   same |-> 60],
    [setting |-> W_rtus, n |-> 9 + 65536,    same |-> 9],
    [setting |-> W_rtds, n |-> 60 - 65536,   same |-> 60],
    [setting |-> W_rtds, n |-> -10,          same |-> 65526] }

\* Index texts of the second hall effect key: 2, and 258, which is 2 more than 2^8.
WidthIndexes == {Dec(2), Dec(258)}

\* hkey2.<lh|uh|rtus|rtds> <n> with n in 0..65535
SetNarrow ==
  \E a \in WidthArguments : handleSerialInput(KeyLine(W_hkey, Dec(2), a.setting, Dec(a.same)))

\* hkey<2|258>.<lh|uh|rtus|rtds> <n> with n outside 0..65535
SetWide ==
  \E a \in WidthArguments : \E index \in WidthIndexes :
    handleSerialInput(KeyLine(W_hkey, index, a.setting, Dec(a.n)))

WidthNext == SetNarrow \/ SetWide

WidthSpec == HkeyInit /\ [][WidthNext]_vars

\* Values of lh and uh given to every hall effect key at once: some pass the check
\* of every key, some of one key only, some of none.
BroadcastValues == {205, 290, 300, 370, 385, 390, 395}

\* hkey.lh <value>, hkey.uh <value>
SetEveryKey ==
  \E value \in BroadcastValues : \E setting \in {W_lh, W_uh} :
    handleSerialInput(KeyLine(W_hkey, NoIndex, setting, Dec(value)))

BroadcastNext == SetEveryKey

BroadcastSpec == HkeyInit /\ [][BroadcastNext]_vars

\* Values of lh and uh on a grid over the travel, up to the highest upper value.
ThresholdValues == {0, 10, 100, 110, 200, 210, 380, 390}

\* hkey2.lh <value>, hkey2.uh <value>
SetThreshold ==
  \E value \in ThresholdValues : \E setting \in {W_lh, W_uh} :
    handleSerialInput(KeyLine(W_hkey, Dec(2), setting, Dec(value)))

ThresholdNext == SetThreshold

ThresholdSpec == HkeyInit /\ [][ThresholdNext]_vars

(***************************************************************************)
(* Properties                                                              *)
(***************************************************************************)
\* The prefix that addresses the hall effect keys in the running firmware.
HEPrefix == IF firmware = "hkey" THEN W_hkey ELSE W_key

\* The slots a key line with this index text addresses when the index is valid.
Addressed(index, count) ==
  IF index = NoIndex THEN 0..(count - 1) ELSE {Atoi(index) - 1}

\* The 16-bit value an argument text stands for.
Value16(argument) == ToUint16(Atoi(argument))

\* C1: with upperHysteresis - lowerHysteresis >= HYSTERESIS_TOLERANCE for every
\* analog key at the start, every analog key satisfies it after any sequence of
\* lh and uh commands.
C1_HysteresisGap ==
  \A i \in HEIndex :
    heKeys[i].upperHysteresis - heKeys[i].lowerHysteresis >= HYSTERESIS_TOLERANCE

\* A uh command has just narrowed a key's gap to exactly the tolerance, after an lh
\* command lowered its lower threshold to 0.
C1_Witness ==
  /\ input = KeyLine(HEPrefix, Dec(2), W_uh, Dec(65536 + HYSTERESIS_TOLERANCE))
  /\ heKeys[1].lowerHysteresis = 0
  /\ heKeys[1].upperHysteresis = HYSTERESIS_TOLERANCE

\* The step of a uh command on the keys it addresses: taken exactly when the value
\* is at least the tolerance above the key's lower threshold and at least the
\* tolerance below the travel distance.
UhStep ==
  \A index \in SomeHEIndexes : \A argument \in HysteresisArguments :
    input' = KeyLine(HEPrefix, index, W_uh, argument) =>
      \A k \in Addressed(index, HE_KEYS) :
        IF /\ Value16(argument) - heKeys[k].lowerHysteresis >= HYSTERESIS_TOLERANCE
           /\ TRAVEL_DISTANCE_IN_0_01MM - Value16(argument) >= HYSTERESIS_TOLERANCE
        THEN heKeys'[k].upperHysteresis = Value16(argument)
        ELSE heKeys'[k].upperHysteresis = heKeys[k].upperHysteresis

UpperBelowCeiling ==
  \A i \in HEIndex :
    TRAVEL_DISTANCE_IN_0_01MM - heKeys[i].upperHysteresis >= HYSTERESIS_TOLERANCE

\* C2: a uh command with value v is accepted exactly when
\* v - lowerHysteresis >= HYSTERESIS_TOLERANCE and maxTravel - v >= HYSTERESIS_TOLERANCE,
\* and the upper threshold of every analog key stays at least HYSTERESIS_TOLERANCE
\* below the travel distance.
C2_UpperHysteresis == [][UhStep]_vars /\ []UpperBelowCeiling

\* A uh command has just been accepted with the highest value that passes, and the
\* key's upper threshold is no longer the one it started with.
C2_Witness ==
  /\ input = KeyLine(HEPrefix, Dec(2), W_uh,
                     Dec(TRAVEL_DISTANCE_IN_0_01MM - HYSTERESIS_TOLERANCE))
  /\ heKeys[1].upperHysteresis = TRAVEL_DISTANCE_IN_0_01MM - HYSTERESIS_TOLERANCE
  /\ heKeys[1].lowerHysteresis = 205

\* The step of an rtus or rtds command on the keys it addresses: the value is stored
\* exactly when it lies in [RAPID_TRIGGER_TOLERANCE, TRAVEL_DISTANCE_IN_0_01MM].
SensitivityStep ==
  \A index \in SomeHEIndexes : \A argument \in SensitivityArguments :
    \A k \in Addressed(index, HE_KEYS) :
      LET inRange == /\ Value16(argument) >= RAPID_TRIGGER_TOLERANCE
                     /\ Value16(argument) <= TRAVEL_DISTANCE_IN_0_01MM
      IN  /\ input' = KeyLine(HEPrefix, index, W_rtus, argument) =>
               heKeys'[k].rapidTriggerUpSensitivity =
                 IF inRange THEN Value16(argument) ELSE heKeys[k].rapidTriggerUpSensitivity
          /\ input' = KeyLine(HEPrefix, index, W_rtds, argument) =>
               heKeys'[k].rapidTriggerDownSensitivity =
                 IF inRange THEN Value16(argument) ELSE heKeys[k].rapidTriggerDownSensitivity

SensitivityInRange ==
  \A i \in HEIndex :
    /\ heKeys[i].rapidTriggerUpSensitivity >= RAPID_TRIGGER_TOLERANCE
    /\ heKeys[i].rapidTriggerUpSensitivity <= TRAVEL_DISTANCE_IN_0_01MM
    /\ heKeys[i].rapidTriggerDownSensitivity >= RAPID_TRIGGER_TOLERANCE
    /\ heKeys[i].rapidTriggerDownSensitivity <= TRAVEL_DISTANCE_IN_0_01MM

\* C3: an rtus or rtds command is accepted only if its value lies in
\* [RAPID_TRIGGER_TOLERANCE, maxTravel], and both sensitivities of every analog key
\* remain in that range.
C3_Sensitivity == [][SensitivityStep]_vars /\ []SensitivityInRange

\* An rtus command has just been accepted at the top of the range and an rtds
\* command before it at the bottom.
C3_Witness ==
  /\ input = KeyLine(HEPrefix, Dec(2), W_rtus, Dec(TRAVEL_DISTANCE_IN_0_01MM))
  /\ heKeys[1].rapidTriggerUpSensitivity = TRAVEL_DISTANCE_IN_0_01MM
  /\ heKeys[1].rapidTriggerDownSensitivity = RAPID_TRIGGER_TOLERANCE
  /\ heKeys[0].rapidTriggerDownSensitivity = 60

\* C7: with restPosition > downPosition at the start, every analog key satisfies
\* downPosition < restPosition <= 2^ANALOG_RESOLUTION - 1 after any sequence of rest
\* and down commands (restPosition = downPosition is unreachable).
C7_CalibrationOrder ==
  firmware = "key" =>
    \A i \in HEIndex :
      /\ heKeys[i].downPosition < heKeys[i].restPosition
      /\ heKeys[i].restPosition <= MaxAnalog

\* A rest command and a down command have brought the two points of a key next to
\* each other, away from where they started.
C7_Witness ==
  /\ firmware = "key"
  /\ input = KeyLine(W_key, Dec(2), W_rest, Dec(2001))
  /\ heKeys[1].restPosition = 2001
  /\ heKeys[1].downPosition = 2000

\* The configuration a get reads back, the streaming flag and the stored copy.
Observable == <<heKeys, digitalKeys, configName, outputMode, stored>>

\* Whether the validation check of a setter fails for this value on this key.
FailsValidation(setting, value, key) ==
  CASE setting = W_lh   -> ~(key.upperHysteresis - value >= HYSTERESIS_TOLERANCE)
    [] setting = W_uh   -> ~(/\ value - key.lowerHysteresis >= HYSTERESIS_TOLERANCE
                             /\ TRAVEL_DISTANCE_IN_0_01MM - value >= HYSTERESIS_TOLERANCE)
    [] setting = W_rtus -> ~(value >= RAPID_TRIGGER_TOLERANCE /\ value <= TRAVEL_DISTANCE_IN_0_01MM)
    [] setting = W_rtds -> ~(value >= RAPID_TRIGGER_TOLERANCE /\ value <= TRAVEL_DISTANCE_IN_0_01MM)
    [] setting = W_rest -> ~(value > key.downPosition /\ value <= MaxAnalog)
    [] setting = W_down -> ~(value < key.restPosition)

\* The setting and the argument of a line "<prefix><N>.<setting> <argument>".
SettingOf(line)  == GetArgumentAt(GetArgumentAt(line, SP, 0), DOT, 1)
ArgumentOf(line) == GetArgumentAt(line, SP, 1)

\* The step of a setter command whose value fails the check, and of a name command
\* whose parameter does not have 1..128 characters: nothing changes.
RejectedStep ==
  /\ \A line \in HkeySetterLines \cup KeySetterLines :
       ( /\ input' = line
         /\ StartsWith(line, HEPrefix)
         /\ FailsValidation(SettingOf(line), Value16(ArgumentOf(line)), heKeys[1]) )
       => UNCHANGED Observable
  /\ \A n \in {0, 2, 129} :
       (input' = NameLine(NameOfLength(n)) /\ ~(n >= 1 /\ n <= 128))
       => UNCHANGED Observable

\* C4: when a lh, uh, rtus, rtds, rest, down or name command carries a value that
\* fails its validation check, every field of every key, the device name and the
\* streaming flag are what they were before the command.
C4_AllOrNothing == [][RejectedStep]_vars

\* An rtds command below the range has just been rejected on a key whose other
\* fields earlier commands had changed.
C4_Witness ==
  /\ input = KeyLine(HEPrefix, Dec(2), W_rtds, Dec(RAPID_TRIGGER_TOLERANCE - 1))
  /\ heKeys[1].rapidTriggerDownSensitivity = TRAVEL_DISTANCE_IN_0_01MM
  /\ heKeys[1].lowerHysteresis = 0
  /\ heKeys[1].upperHysteresis = 205
  /\ configName = NameOfLength(2)

\* The step of a key command whose index is outside 1..count: no key changes and
\* nothing is printed.
OutOfRangeStep ==
  \A argument \in IndexArguments :
    /\ \A n \in OutOfRange(HE_KEYS) : \A setting \in {W_rt, W_hid} :
         input' = KeyLine(HEPrefix, Dec(n), setting, argument) =>
           heKeys' = heKeys /\ digitalKeys' = digitalKeys /\ output' = <<>>
    /\ \A n \in OutOfRange(DIGITAL_KEYS) :
         input' = KeyLine(W_dkey, Dec(n), W_hid, argument) =>
           heKeys' = heKeys /\ digitalKeys' = digitalKeys /\ output' = <<>>

\* C5: a key command whose index N is below 1 or above the key count, N = 0 and
\* N of 256 or more included, modifies no field of any key and prints nothing.
C5_OutOfRangeIgnored == [][OutOfRangeStep]_vars

\* r and q agree on every field but f.
SameBut(r, q, f) == \A g \in DOMAIN r : g # f => q[g] = r[g]

\* The step of a key command without validation: with a valid index N only the named
\* field of slot N-1 changes, to the value given; without an index the named field
\* of every key of that kind takes the value; keys of the other kind stay.
HETargetStep(i, a) ==
  input' = KeyLine(W_hkey, i, a.setting, a.text) =>
    /\ digitalKeys' = digitalKeys
    /\ \A k \in HEIndex :
         IF k \in Addressed(i, HE_KEYS)
         THEN heKeys'[k][a.field] = a.value /\ SameBut(heKeys[k], heKeys'[k], a.field)
         ELSE heKeys'[k] = heKeys[k]

DigitalTargetStep(i, a) ==
  input' = KeyLine(W_dkey, i, a.setting, a.text) =>
    /\ heKeys' = heKeys
    /\ \A k \in DigitalIndex :
         IF k \in Addressed(i, DIGITAL_KEYS)
         THEN /\ digitalKeys'[k][a.field] = a.value
              /\ SameBut(digitalKeys[k], digitalKeys'[k], a.field)
         ELSE digitalKeys'[k] = digitalKeys[k]

TargetStep ==
  /\ \A i \in TargetHEIndexes :
       /\ \A a \in FlagTargetArguments : HETargetStep(i, a)
       /\ \A a \in CharTargetArguments : HETargetStep(i, a)
  /\ \A i \in TargetDigitalIndexes : \A a \in DigitalTargetArguments :
       DigitalTargetStep(i, a)

\* C6: a key command with a valid 1-based index N modifies only the named setting of
\* key N (slot N-1); with N omitted it applies the setting to every key of that
\* kind, never to keys of the other kind.
C6_KeyTargeting == [][TargetStep]_vars

\* A char command on the last hall effect key alone has just changed it, after a
\* command without index had set rt on every hall effect key.
C6_Witness ==
  /\ input = KeyLine(W_hkey, Dec(HE_KEYS), W_char, Dec(66))
  /\ heKeys[HE_KEYS - 1].keyChar = 66
  /\ \A k \in HEIndex : heKeys[k].rapidTrigger
  /\ \A k \in HEIndex : k # HE_KEYS - 1 => heKeys[k].keyChar # 66

\* The step of a name command: the name becomes the parameter when that has 1 to 128
\* characters, and stays otherwise; name alone has an empty parameter.
NameStep ==
  /\ \A n \in NameLengths :
       input' = NameLine(NameOfLength(n)) =>
         configName' = IF n >= 1 /\ n <= 128 THEN NameOfLength(n) ELSE configName
  /\ input' = W_name => configName' = configName

NameLengthInRange == Len(configName) >= 1 /\ Len(configName) <= 128

\* C8: the name command replaces the device name with its parameter exactly when the
\* parameter has 1 to 128 characters; with an empty or longer parameter the name is
\* unchanged, so the stored name always has length 1..128.
C8_NameLength == [][NameStep]_vars /\ []NameLengthInRange

\* The step of a char command, as stated: a single character gives its code, a
\* decimal integer of any number of digits gives its value.
CharStepAsStated ==
  /\ \A a \in CharacterArguments :
       /\ input' = HkeyCharLine(a.text) => heKeys'[1].keyChar = a.code
       /\ input' = DkeyCharLine(a.text) => digitalKeys'[0].keyChar = a.code
  /\ \A d \in DecimalArguments :
       /\ input' = HkeyCharLine(d.text) => heKeys'[1].keyChar = d.n
       /\ input' = DkeyCharLine(d.text) => digitalKeys'[0].keyChar = d.n

\* C9 as stated: for every single-character argument c keyChar becomes the code of c,
\* and for every decimal integer n in 0..255, single digits included, keyChar becomes n.
C9_CharAsStated == [][CharStepAsStated]_vars

\* The step of a char command: a single character gives the code of its lower case,
\* a decimal integer written with two or more characters gives its value.
CharStep ==
  /\ \A a \in CharacterArguments :
       /\ input' = HkeyCharLine(a.text) => heKeys'[1].keyChar = a.lowered
       /\ input' = DkeyCharLine(a.text) => digitalKeys'[0].keyChar = a.lowered
  /\ \A d \in DecimalArguments :
       Len(d.text) >= 2 =>
         /\ input' = HkeyCharLine(d.text) => heKeys'[1].keyChar = d.n
         /\ input' = DkeyCharLine(d.text) => digitalKeys'[0].keyChar = d.n

\* C9: for every single-character argument c keyChar becomes the code of c in lower
\* case, a single digit d giving 48 + d; for every decimal integer n in 0..255
\* written with two or more characters keyChar becomes n; for hall effect and
\* digital keys alike.
C9_Char == [][CharStep]_vars

\* The single digit 5 has just been given to both keys, after an upper case letter:
\* each keyChar is the code of the digit.
C9_Witness ==
  /\ input = DkeyCharLine(Dec(5))
  /\ digitalKeys[0].keyChar = 53
  /\ heKeys[1].keyChar = 122

\* The step of a boolean command: the targeted flag is on exactly when the argument,
\* read without regard to case, is 1 or true.
FlagStep ==
  \A a \in FlagArguments :
    /\ input' = KeyLine(W_hkey, Dec(2), W_rt, a.text) => heKeys'[1].rapidTrigger = a.on
    /\ input' = KeyLine(W_hkey, Dec(2), W_crt, a.text) =>
         heKeys'[1].continuousRapidTrigger = a.on
    /\ input' = KeyLine(W_hkey, NoIndex, W_hid, a.text) =>
         \A k \in HEIndex : heKeys'[k].hidEnabled = a.on
    /\ input' = KeyLine(W_dkey, Dec(1), W_hid, a.text) => digitalKeys'[0].hidEnabled = a.on
    /\ input' = OutLine(a.text) => outputMode' = a.on

\* The same command again changes nothing.
RepeatedStep ==
  input' = input => UNCHANGED <<heKeys, digitalKeys, outputMode, configName, output>>

\* C10: after rt, crt, hid or out with a non-empty argument the targeted flag is true
\* exactly when the argument is 1 or true and false otherwise, whatever it was
\* before; repeating the command leaves the state unchanged.
C10_SetNotToggle == [][FlagStep /\ RepeatedStep]_vars

\* rt has just been turned on again on the second hall effect key, with crt and
\* the streaming turned off before and hid turned on for every hall effect key.
C10_Witness ==
  /\ input = KeyLine(W_hkey, Dec(2), W_rt, W_true)
  /\ heKeys[1].rapidTrigger
  /\ ~heKeys[1].continuousRapidTrigger
  /\ \A k \in HEIndex : heKeys[k].hidEnabled
  /\ ~digitalKeys[0].hidEnabled
  /\ ~outputMode

\* "OUT hkey<N>=<raw> <mapped>" of the key in slot k, from its last readings.
P_OUT == Str(<<"O", "U", "T", " ", "h", "k", "e", "y">>)
P_EQ == Str(<<"=">>)
OutLineOf(k) ==
  P_OUT \o Dec(k + 1) \o P_EQ
    \o Dec(heKeyStates[k].lastSensorValue) \o <<SP>> \o Dec(heKeyStates[k].lastMappedValue)

\* The step of out without an argument: one OUT line per hall effect key, in the
\* order of the keys, and nothing else changes.
DumpStep ==
  input' \in DumpLines =>
    /\ Len(output') = HE_KEYS
    /\ \A k \in HEIndex : output'[k + 1] = OutLineOf(k)
    /\ UNCHANGED <<outputMode, heKeys, digitalKeys, configName, heKeyStates, stored>>

\* C11: out with no argument prints exactly one OUT line per analog key, with the
\* key's index from 1 and its last raw and last mapped reading, and leaves the
\* streaming flag, the configuration and the runtime key states unchanged.
C11_SingleShot == [][DumpStep]_vars

\* The dump has just been printed while the streaming is on.
C11_Witness ==
  /\ input \in DumpLines
  /\ outputMode
  /\ Len(output) = HE_KEYS

P_GET == Str(<<"G", "E", "T", " ">>)
P_END == Str(<<"G", "E", "T", " ", "E", "N", "D">>)
P_name == Str(<<"n", "a", "m", "e">>)

\* "GET <kind><N>.<setting>=<value>" for the key in slot k.
SettingLineOf(kind, k, setting, value) ==
  P_GET \o kind \o Dec(k + 1) \o <<DOT>> \o setting \o P_EQ \o Dec(value)

\* The line is among those the step printed.
Printed(line) == \E i \in 1..Len(output') : output'[i] = line

\* The number of lines of one get: the global fields, the settings of every key,
\* and the sentinel.
GetLength == 8 + 10 * HE_KEYS + 2 * DIGITAL_KEYS + 1

\* The step of get: a line per field and setting, each a GET line with the value in
\* memory, the sentinel once and last, and nothing changes.
GetStep ==
  input' = W_get =>
    /\ Len(output') = GetLength
    /\ output'[GetLength] = P_END
    /\ \A i \in 1..(GetLength - 1) : output'[i] # P_END /\ StartsWith(output'[i], P_GET)
    /\ UNCHANGED <<heKeys, digitalKeys, configName, heKeyStates, outputMode, stored>>
    /\ Printed(P_GET \o P_name \o P_EQ \o configName)
    /\ \A k \in HEIndex :
         /\ Printed(SettingLineOf(W_hkey, k, W_rt, IF heKeys[k].rapidTrigger THEN 1 ELSE 0))
         /\ Printed(SettingLineOf(W_hkey, k, W_crt,
                                  IF heKeys[k].continuousRapidTrigger THEN 1 ELSE 0))
         /\ Printed(SettingLineOf(W_hkey, k, W_rtus, heKeys[k].rapidTriggerUpSensitivity))
         /\ Printed(SettingLineOf(W_hkey, k, W_rtds, heKeys[k].rapidTriggerDownSensitivity))
         /\ Printed(SettingLineOf(W_hkey, k, W_lh, heKeys[k].lowerHysteresis))
         /\ Printed(SettingLineOf(W_hkey, k, W_uh, heKeys[k].upperHysteresis))
         /\ Printed(SettingLineOf(W_hkey, k, W_char, heKeys[k].keyChar))
         /\ Printed(SettingLineOf(W_hkey, k, W_hid, IF heKeys[k].hidEnabled THEN 1 ELSE 0))
         /\ Printed(SettingLineOf(W_hkey, k, W_rest, heKeyStates[k].restPosition))
         /\ Printed(SettingLineOf(W_hkey, k, W_down, heKeyStates[k].downPosition))
    /\ \A k \in DigitalIndex :
         /\ Printed(SettingLineOf(W_dkey, k, W_char, digitalKeys[k].keyChar))
         /\ Printed(SettingLineOf(W_dkey, k, W_hid, IF digitalKeys[k].hidEnabled THEN 1 ELSE 0))

\* C12: every get prints one line per global field and per key setting and ends with
\* the sentinel GET END, printed once and after every other GET line; get changes no
\* configuration field, runtime state or the streaming flag, and the values printed
\* are those of the configuration in memory.
C12_Get == [][GetStep]_vars

\* get has just printed a configuration that was changed since it was loaded and
\* not saved.
C12_Witness ==
  /\ input = W_get
  /\ Len(output) = GetLength
  /\ configName = Str(<<"c", "d">>)
  /\ heKeys[1].lowerHysteresis = 370
  /\ stored.name # configName

\* The step of any command: save leaves the stored copy equal to the configuration in
\* memory, every other command leaves the stored copy as it was.
SaveStep ==
  IF input' = W_save
  THEN stored' = [name |-> configName', heKeys |-> heKeys', digitalKeys |-> digitalKeys']
  ELSE stored' = stored

\* C13: the stored configuration changes only on save: every other command leaves the
\* stored copy unchanged, right after a save it equals the configuration in memory,
\* and changes made after a save are not stored until the next save.
C13_SaveOnly == [][SaveStep]_vars

\* A name saved earlier is still the stored one after the name in memory was changed
\* and printed.
C13_Witness ==
  /\ input = W_get
  /\ stored.name = Str(<<"a", "b">>)
  /\ configName = Str(<<"c", "d">>)
  /\ stored.heKeys[1].lowerHysteresis = 370
  /\ heKeys[1].lowerHysteresis = 380

\* A line with an unknown command or setting has been handled.
IgnoredLines == UnknownCommandLines \cup UnknownSettingLines

\* The step of a line with an unknown command or an unknown setting: nothing changes,
\* nothing is saved, nothing is printed.
UnknownStep ==
  input' \in IgnoredLines =>
    /\ UNCHANGED <<heKeys, digitalKeys, configName, heKeyStates, outputMode, stored, booted>>
    /\ output' = <<>>

\* C14: a line whose command word is no global command and does not begin with hkey
\* or dkey, or a key command whose setting is not one of that key kind, a key command
\* without a setting included, changes no configuration field, no runtime state and
\* not the streaming flag, does not save, and prints nothing.
C14_UnknownIgnored == [][UnknownStep]_vars

\* An unsupported setting has just been given to a hall effect key, with unsaved
\* changes in memory and the streaming on.
C14_Witness ==
  /\ input = KeyLine(W_hkey, Dec(2), W_rest, Dec(100))
  /\ outputMode
  /\ stored.name # configName
  /\ output = <<>>

\* The step of a line with upper case letters is a step of the same line in lower
\* case: the same configuration, streaming flag, stored copy and output. Where the
\* older revision reads past the buffer, it is a step the lower case line can take.
CaseStep ==
  \A p \in CasePairs :
    input' = p.line =>
      IF firmware = "hkey"
      THEN Handle(p.lower)
      ELSE \E junk \in JunkFor(p.lower) : LegacyHandle(p.lower, junk)

\* Neither the name nor the character of a key holds an upper case letter.
NoUpperCase ==
  /\ \A i \in 1..Len(configName) : ~(configName[i] >= 65 /\ configName[i] <= 90)
  /\ \A k \in HEIndex : ~(heKeys[k].keyChar >= 65 /\ heKeys[k].keyChar <= 90)
  /\ \A k \in DigitalIndex : ~(digitalKeys[k].keyChar >= 65 /\ digitalKeys[k].keyChar <= 90)

\* C15: handling a line and handling the line converted to lowercase, from the same
\* state, give the same configuration, streaming flag and output; the whole line,
\* parameters included, is lowercased, so a stored name or char value never holds an
\* upper case letter taken from the input.
C15_CaseInsensitive == [][CaseStep]_vars /\ []NoUpperCase

\* A name given in mixed case has just been stored in lower case, after an upper
\* case letter was given as the character of the second hall effect key.
C15_Witness ==
  /\ input = Str(<<"N", "A", "M", "E", " ", "A", "b", "C">>)
  /\ configName = Str(<<"a", "b", "c">>)
  /\ heKeys[1].keyChar = 122

\* A sample has been taken in this step; the travel it was mapped to.
Sampled == Len(input') = Len(input) + 1
SampledTravel == input'[Len(input')].travel

\* The step of a sample under the hysteresis policy: a released key is pressed
\* exactly when the travel is at or above the upper threshold, a pressed key released
\* exactly when it is at or below the lower one; inside the dead zone the pressed
\* flag stays and no event is emitted.
HysteresisStep ==
  Sampled /\ ~heKeys[0].rapidTrigger =>
    LET travel == SampledTravel
        key    == heKeys[0]
        before == heKeyStates[0]
        after  == heKeyStates'[0]
    IN  /\ ~before.pressed => (after.pressed <=> travel >= key.upperHysteresis)
        /\ before.pressed => (~after.pressed <=> travel <= key.lowerHysteresis)
        /\ travel > key.lowerHysteresis /\ travel < key.upperHysteresis =>
             /\ after.pressed = before.pressed
             /\ after.pressEvents = before.pressEvents
             /\ after.releaseEvents = before.releaseEvents

\* C16: with rapidTrigger off a released key becomes pressed iff travel >=
\* upperHysteresis, a pressed key released iff travel <= lowerHysteresis, otherwise
\* the state is held; samples strictly inside the dead zone never change the pressed
\* flag and emit no press or release.
C16_Hysteresis == [][HysteresisStep]_vars

\* A key pressed at the upper threshold is still pressed after a sample just inside
\* the dead zone and one just above the lower threshold.
C16_Witness ==
  /\ Len(input) = 3
  /\ input[1].travel = 300
  /\ input[2].travel = 299
  /\ input[3].travel = 101
  /\ heKeyStates[0].pressed
  /\ heKeyStates[0].pressEvents = 1
  /\ heKeyStates[0].releaseEvents = 0

\* The travel of the i-th sample.
TravelAt(i) == input[i].travel

\* The samples so far go down, not necessarily strictly, and then up.
DecreasingThenIncreasing ==
  \E m \in 1..Len(input) :
    /\ \A i \in 1..(m - 1) : TravelAt(i + 1) <= TravelAt(i)
    /\ \A i \in m..(Len(input) - 1) : TravelAt(i + 1) >= TravelAt(i)

\* The samples so far go strictly down and then strictly up, at least one step each.
StrictlyDecreasingThenIncreasing ==
  \E m \in 2..(Len(input) - 1) :
    /\ \A i \in 1..(m - 1) : TravelAt(i + 1) < TravelAt(i)
    /\ \A i \in m..(Len(input) - 1) : TravelAt(i + 1) > TravelAt(i)

\* The lowest travel sampled so far.
LowestTravel == CHOOSE t \in {TravelAt(i) : i \in 1..Len(input)} :
                  \A i \in 1..Len(input) : t <= TravelAt(i)

\* C17 as stated: for every travel sequence that decreases and then increases,
\* exactly one press and one release event fire.
C17_ExactlyOneEach ==
  StrictlyDecreasingThenIncreasing =>
    heKeyStates[1].pressEvents = 1 /\ heKeyStates[1].releaseEvents = 1

\* The step of a sample under the rapid-trigger policy: a flip happens only when the
\* travel has moved from the extremum by the sensitivity of its direction, and sets
\* the extremum to the travel.
RapidTriggerStep ==
  Sampled /\ heKeys[1].rapidTrigger =>
    LET travel == SampledTravel
        key    == heKeys[1]
        before == heKeyStates[1]
        after  == heKeyStates'[1]
    IN  /\ after.pressed /\ ~before.pressed =>
             /\ before.extremum - travel >= key.rapidTriggerDownSensitivity
             /\ after.extremum = travel
        /\ before.pressed /\ ~after.pressed =>
             /\ travel - before.extremum >= key.rapidTriggerUpSensitivity
             /\ after.extremum = travel

\* Press and release alternate, the press first; over samples that go down and then
\* up there is at most one of each, a press exactly when the descent from the first
\* sample reaches the down sensitivity, and a release exactly when there was a press
\* and the rise from the lowest sample reaches the up sensitivity.
RapidTriggerEvents ==
  LET state == heKeyStates[1]
      key   == heKeys[1]
  IN  /\ state.pressEvents - state.releaseEvents = (IF state.pressed THEN 1 ELSE 0)
      /\ Len(input) > 0 /\ DecreasingThenIncreasing =>
           /\ state.pressEvents <= 1
           /\ state.pressEvents = 1 <=>
                TravelAt(1) - LowestTravel >= key.rapidTriggerDownSensitivity
           /\ state.releaseEvents = 1 <=>
                /\ state.pressEvents = 1
                /\ TravelAt(Len(input)) - LowestTravel >= key.rapidTriggerUpSensitivity

\* C17: in non-continuous rapid-trigger mode, from the released state, press and
\* release events alternate; a travel sequence that decreases and then increases
\* fires at most one press and at most one release, the press exactly when the
\* descent reaches rapidTriggerDownSensitivity and the release exactly when, after
\* a press, the rise from the lowest sample reaches rapidTriggerUpSensitivity; a
\* flip happens only when the sample is at least the sensitivity away from the
\* extremum, and on every flip the extremum is set to the current travel.
C17_RapidTrigger == [][RapidTriggerStep]_vars /\ []RapidTriggerEvents

\* The scenario: with both sensitivities 20 the travel comes down from 50 to 29, the
\* press fires, and goes back up to 40 without a release.
C17_Witness ==
  /\ Len(input) = 3
  /\ TravelAt(1) = 50 /\ TravelAt(2) = 29 /\ TravelAt(3) = 40
  /\ heKeys[1].rapidTriggerUpSensitivity = 20
  /\ heKeyStates[1].pressed
  /\ heKeyStates[1].pressEvents = 1
  /\ heKeyStates[1].releaseEvents = 0
  /\ heKeyStates[1].extremum = 29

\* C18 as stated: with restPosition > downPosition, a raw reading at or above the
\* one before never maps to less travel than the one before.
C18_IncreasingRaw ==
  [][Sampled /\ heKeyStates'[0].lastSensorValue >= heKeyStates[0].lastSensorValue =>
       heKeyStates'[0].lastMappedValue >= heKeyStates[0].lastMappedValue]_vars

\* The step of a sample seen by the mapper: the travel follows the raw reading in
\* the opposite direction, the travel being the clamped interpolation.
MapperStep ==
  Sampled =>
    LET before == heKeyStates[0]
        after  == heKeyStates'[0]
    IN  /\ before.restPosition > before.downPosition
        /\ after.lastSensorValue >= before.lastSensorValue =>
             after.lastMappedValue <= before.lastMappedValue
        /\ after.lastSensorValue <= before.lastSensorValue =>
             after.lastMappedValue >= before.lastMappedValue
        /\ after.lastMappedValue =
             Clamp(((before.restPosition - after.lastSensorValue) * 400)
                      \div (before.restPosition - before.downPosition), 0, 400)

\* C18: for all restPosition > downPosition the travel mapper
\* clamp((restPosition - raw) * maxTravel / (restPosition - downPosition), 0,
\* maxTravel) is monotonic with the raw reading going toward downPosition: a
\* decreasing raw reading never decreases the mapped travel, an increasing one
\* never increases it.
C18_Monotonic == [][MapperStep]_vars

\* A raw reading above the one before has been mapped to strictly less travel.
C18_Witness ==
  /\ Len(input) = 2
  /\ input[1].raw < input[2].raw
  /\ input[1].travel > input[2].travel
  /\ heKeyStates[0].lastMappedValue = input[2].travel

\* The last reading of the first key lies in the range of the converter and its
\* travel in [0, maxTravel]; at or beyond the rest position the travel is 0, at or
\* beyond the down position it is maxTravel.
TravelInRange ==
  LET state == heKeyStates[0]
  IN  /\ state.restPosition > state.downPosition
      /\ state.lastSensorValue >= 0 /\ state.lastSensorValue <= MaxAnalog
      /\ state.lastMappedValue >= 0 /\ state.lastMappedValue <= 400
      /\ state.lastSensorValue >= state.restPosition => state.lastMappedValue = 0
      /\ state.lastSensorValue <= state.downPosition => state.lastMappedValue = 400
      /\ state.restPosition = 3800 /\ state.downPosition = 200 =>
           /\ state.lastSensorValue = 3800 => state.lastMappedValue = 0
           /\ state.lastSensorValue = 200 => state.lastMappedValue = 400

\* C19: for every raw reading in [0, 2^ANALOG_RESOLUTION - 1] and every calibration
\* with restPosition > downPosition the mapped travel lies in [0, maxTravel], the
\* rest position maps to 0 and the down position to maxTravel, and readings beyond
\* either calibration point are clamped to that bound.
C19_TravelRange == []TravelInRange

\* With rest 3800 and down 200, a reading above the rest position was mapped to 0
\* and the reading 0, below the down position, has just been mapped to 400.
C19_Witness ==
  /\ heKeyStates[0].restPosition = 3800
  /\ heKeyStates[0].downPosition = 200
  /\ Len(input) = 2
  /\ input[1].raw = MaxAnalog /\ input[1].travel = 0
  /\ input[2].raw = 0 /\ input[2].travel = 400
  /\ heKeyStates[0].lastMappedValue = 400

\* The step of a validated setting with an argument outside 0..65535, or with the
\* index 258, is the step of the same setting on key 2 with the argument reduced
\* modulo 2^16.
WidthStep ==
  \A a \in WidthArguments : \A index \in WidthIndexes :
    input' = KeyLine(W_hkey, index, a.setting, Dec(a.n)) =>
      Handle(KeyLine(W_hkey, Dec(2), a.setting, Dec(a.same)))

\* Every stored value passes the range check of its setter.
StoredValuesChecked ==
  \A k \in HEIndex :
    /\ heKeys[k].upperHysteresis - heKeys[k].lowerHysteresis >= HYSTERESIS_TOLERANCE
    /\ TRAVEL_DISTANCE_IN_0_01MM - heKeys[k].upperHysteresis >= HYSTERESIS_TOLERANCE
    /\ heKeys[k].rapidTriggerUpSensitivity >= RAPID_TRIGGER_TOLERANCE
    /\ heKeys[k].rapidTriggerUpSensitivity <= TRAVEL_DISTANCE_IN_0_01MM
    /\ heKeys[k].rapidTriggerDownSensitivity >= RAPID_TRIGGER_TOLERANCE
    /\ heKeys[k].rapidTriggerDownSensitivity <= TRAVEL_DISTANCE_IN_0_01MM

\* C20: integer arguments of lh, uh, rtus and rtds are reduced modulo 2^16 before
\* validation, and the key index modulo 2^8 after subtracting 1: an argument n and
\* n + 65536 have the same effect, a negative argument is validated as n + 65536, and
\* whatever the argument no value is stored that fails the setter's range check.
C20_ArgumentWidth == [][WidthStep]_vars /\ []StoredValuesChecked

\* lh 65741 on key 258 has just stored 205 in the second hall effect key, after
\* uh -65146 had stored 390 and rtus 65596 had stored 60.
C20_Witness ==
  /\ input = KeyLine(W_hkey, Dec(258), W_lh, Dec(205 + 65536))
  /\ heKeys[1].lowerHysteresis = 205
  /\ heKeys[1].upperHysteresis = 390
  /\ heKeys[1].rapidTriggerUpSensitivity = 60

\* The step of lh or uh without an index: each hall effect key takes the value
\* exactly when its own values pass the check, and keeps its own otherwise.
BroadcastStep ==
  \A value \in BroadcastValues :
    /\ input' = KeyLine(W_hkey, NoIndex, W_lh, Dec(value)) =>
         \A k \in HEIndex :
           heKeys'[k] =
             IF heKeys[k].upperHysteresis - value >= HYSTERESIS_TOLERANCE
             THEN [heKeys[k] EXCEPT !.lowerHysteresis = value]
             ELSE heKeys[k]
    /\ input' = KeyLine(W_hkey, NoIndex, W_uh, Dec(value)) =>
         \A k \in HEIndex :
           heKeys'[k] =
             IF /\ value - heKeys[k].lowerHysteresis >= HYSTERESIS_TOLERANCE
                /\ TRAVEL_DISTANCE_IN_0_01MM - value >= HYSTERESIS_TOLERANCE
             THEN [heKeys[k] EXCEPT !.upperHysteresis = value]
             ELSE heKeys[k]

\* C21: a command without an index with a validated setting is checked against each
\* key on its own: exactly the keys whose current values pass the check take the new
\* value, the others keep theirs, so one lh or uh command can be applied to some
\* analog keys and rejected for others.
C21_PerKeyCheck == [][BroadcastStep]_vars

\* lh 370 for every key has just been stored in the second key, whose upper value
\* is 390, and rejected for the first, whose upper value is 300.
C21_Witness ==
  /\ input = KeyLine(W_hkey, NoIndex, W_lh, Dec(370))
  /\ heKeys[1].lowerHysteresis = 370 /\ heKeys[1].upperHysteresis = 390
  /\ heKeys[0].lowerHysteresis = 200 /\ heKeys[0].upperHysteresis = 300

\* The two values satisfy both conditions on the hysteresis of a key.
ValidHysteresis(lower, upper) ==
  /\ upper - lower >= HYSTERESIS_TOLERANCE
  /\ TRAVEL_DISTANCE_IN_0_01MM - upper >= HYSTERESIS_TOLERANCE

\* The key after the command <setting> <value> on it.
AfterCommand(key, setting, value) == HkeySetting(key, setting, Dec(value))

\* lh lower and then uh upper on the key are both accepted.
LowerThenUpper(key, lower, upper) ==
  LET first == AfterCommand(key, W_lh, lower)
      both  == AfterCommand(first, W_uh, upper)
  IN  /\ first.lowerHysteresis = lower /\ first.upperHysteresis = key.upperHysteresis
      /\ both.lowerHysteresis = lower /\ both.upperHysteresis = upper

\* uh upper and then lh lower on the key are both accepted.
UpperThenLower(key, lower, upper) ==
  LET first == AfterCommand(key, W_uh, upper)
      both  == AfterCommand(first, W_lh, lower)
  IN  /\ first.upperHysteresis = upper /\ first.lowerHysteresis = key.lowerHysteresis
      /\ both.lowerHysteresis = lower /\ both.upperHysteresis = upper

\* C22: from any key state (l, u) with u - l >= HYSTERESIS_TOLERANCE and maxTravel -
\* u >= HYSTERESIS_TOLERANCE, every pair (l', u') with the same two conditions is
\* reached by the commands lh l' and uh u' in at least one of the two orders, both
\* commands being accepted in that order.
C22_EveryPairReachable ==
  \A k \in HEIndex :
    ValidHysteresis(heKeys[k].lowerHysteresis, heKeys[k].upperHysteresis) =>
      \A lower \in ThresholdValues : \A upper \in ThresholdValues :
        ValidHysteresis(lower, upper) =>
          \/ LowerThenUpper(heKeys[k], lower, upper)
          \/ UpperThenLower(heKeys[k], lower, upper)

\* The second key, which started at (380, 390), has reached (0, 10): lh 0 and then
\* uh 10, the order uh 10 and then lh 0 being rejected from (380, 390). From here
\* (380, 390) is reached by uh 390 and then lh 380 only.
C22_Witness ==
  /\ input = KeyLine(W_hkey, Dec(2), W_uh, Dec(10))
  /\ heKeys[1].lowerHysteresis = 0
  /\ heKeys[1].upperHysteresis = 10
  /\ ~LowerThenUpper(heKeys[1], 380, 390)
  /\ UpperThenLower(heKeys[1], 380, 390)

=============================================================================
